---- MODULE Spec2Model ----
(***************************************************************************)
(* State-machine model of the SolScout alert pipeline:                     *)
(*   - analytics: ConfidenceScorer, ThrottleManager, generate_alerts       *)
(*   - notifier:  Throttler, Deduplicator, service_loop and its handlers   *)
(*   - bus:       the consumer loops of analytics, notifier and tg_gateway *)
(* Each component has its own specification; the variables of the other    *)
(* components are held at their initial values.                            *)
(***************************************************************************)
EXTENDS Integers, Sequences, FiniteSets, TLC

VARIABLES
    \* ---- analytics: scoring (scoring.cpp) ----
    config_,            \* analytics Config (thresholds, adjustments, throttle settings)
    sc_pc,              \* position inside process_market_update's scoring steps
    signals,            \* SignalResult: s1..s10, n1, data_quality (hundredths), confidence_score, band, gates
    risk_on,            \* RegimeDetector::is_risk_on() as read by process_market_update
    band_seen,          \* history: determine_band results per (confidence, entry, net_edge)
    \* ---- analytics: throttling and alert emission (throttles.cpp, analytics_service.cpp) ----
    now,                \* wall clock, in ticks (TicksPerMin ticks per minute)
    alert_history_,     \* ThrottleManager::alert_history_
    recorded,           \* history: the record_alert calls whose cooldown has not yet elapsed
    last_gen,           \* history: the last generate_alerts call
    \* ---- notifier (notifier_service.cpp, throttler.cpp, deduplicator.cpp) ----
    clock,              \* wall clock of the notifier and of the key-value store, in seconds
    kv,                 \* the Redis keys of the notifier: key -> [val, exp]
    alert_queue_,       \* NotifierService::alert_queue_
    command_queue_,     \* NotifierService::command_queue_
    running_,           \* NotifierService::running_
    svc_pc,             \* position of the service thread inside service_loop
    outbound,           \* the outbound-alerts stream: the alerts published
    audit_log,          \* rows of notifier_audit_log
    relock,             \* what relocking AuditLogger::conn_mutex_ does in this build
    handled_cmds,       \* history: the commands handled so far
    decided,            \* history: the outcome decided for every alert handled
    last,               \* history: the last handle_inbound_alert call
    \* ---- stream consumers (redis_bus.cpp of analytics, notifier, tg_gateway) ----
    bus_svc,            \* the service whose consumer loop is observed
    stream_,            \* the entries of the stream the loop reads (entry id = position)
    last_delivered,     \* the consumer group's last-delivered id
    pel,                \* the group's pending entries: entry id -> owning consumer name
    consumer_name,      \* the name the loop passes to XREADGROUP (changes with the process)
    bus_running,        \* the process of the loop is alive
    polls,              \* parity of the loop's iterations
    restarts,           \* number of restarts of the process so far
    entry_log,          \* history per entry: times read, handler result
    \* ---- tg_gateway (main.cpp, auth.cpp, rate_limiter.cpp, redis_bus.cpp) ----
    gw_now,             \* wall clock of the gateway and of its Redis, in ticks (GwTicksPerMin per minute)
    pending_commands_,  \* TelegramGateway::pending_commands_: corr_id -> [chat_id, timestamp]
    guest_sessions_,    \* AuthManager::guest_sessions_: user -> [expires_at, pin_exp (history)]
    user_limits_,       \* RateLimiter::user_limits_: user -> [window_start, message_count]
    guest_pins,         \* the guest_pin:{pin} keys: pin -> [owner, exp]
    req_stream,         \* the command-requests stream: entries [corr_id, cmd]
    rep_stream,         \* the command-replies stream: entries [corr_id, from]
    cursors,            \* last-delivered position per consumer group (notifier, analytics, gateway)
    cmd_channel,        \* messages in flight on the pub/sub channel portfolio subscribes to
    reply_channel,      \* number of replies portfolio published on its pub/sub reply channel
    next_corr,          \* number of correlation ids generate_uuid has handed out
    gw_log,             \* history: the last update handled by the gateway
    req_info,           \* history per corr_id: chat, command, published, services that received it
    reply_log,          \* history: replied, swept and relayed correlation ids, last reply handled
    passed,             \* history: per user, the times of the messages that passed the rate limit
    \* ---- analytics: worker queue and shutdown (analytics_service.cpp) ----
    update_queue_,      \* AnalyticsService::update_queue_ (ids of market updates)
    an_running_,        \* AnalyticsService::running_
    sub_running_,       \* RedisBus::Impl::running_ (read by the subscriber threads)
    worker_pc,          \* position of service_thread_func
    stop_pc,            \* position of AnalyticsService::stop
    market_pc,          \* position of the market-updates subscriber thread
    an_arrived,         \* number of stream entries the subscriber has read
    an_acked,           \* history: ids acknowledged with XACK
    an_processed,       \* history: ids process_market_update was called with
    \* ---- analytics: bus reconnection (analytics redis_bus.cpp) ----
    bo_now,             \* steady clock, in seconds
    ping_ok,            \* whether a ping of the Redis endpoint succeeds at the moment
    last_connection_attempt_,   \* RedisBus::Impl::last_connection_attempt_, in seconds
    backoff_ms_,        \* RedisBus::Impl::backoff_ms_
    retry_count_,       \* RedisBus::Impl::retry_count_
    bo_last,            \* history: the last ensure_connection call
    \* ---- analytics: regime detector (regime.cpp) ----
    rg_now,             \* wall clock of the regime detector, in ticks of RegimeTickMin minutes
    data_points_,       \* RegimeDetector::data_points_: [sol_price, sol_24h_change_pct, timestamp]
    risk_on_,           \* RegimeDetector::risk_on_
    \* ---- analytics: signal API caches (api_signals.cpp) ----
    market_updates_cache_,  \* ApiSignalsHandler::market_updates_cache_: mint -> [timestamp]
    signals_cache_,     \* ApiSignalsHandler::signals_cache_: mint -> [timestamp]
    cleanup_counter,    \* cache_market_update's static counter, modulo CleanupEvery
    api_last,           \* history: the last get_token_signals call
    pm_last,            \* history: the last market update handled (callback and worker)
    \* ---- tg_gateway: construction, run and the cleanup thread (main.cpp) ----
    gw_main,            \* position of the thread that constructs, initializes and runs the gateway
    gw_running_,        \* TelegramGateway::running_
    cleanup_thread_,    \* TelegramGateway::cleanup_thread_: [joinable, pc and wake-up time of its thread]
    \* ---- threads seen step by step (notifier stop, guest login, regime at arrival) ----
    nstop_pc,           \* position of the thread that calls NotifierService::stop
    login_pc,           \* handle_guest_login calls between their GET and their DEL: user -> pin
    regime_log,         \* history: is_risk_on() when each queued update arrived and when it was scored
    \* ---- ingestor: pool cache (pool_cache.cpp) ----
    pc_now,             \* steady clock of the pool cache, in minutes
    pools_,             \* PoolCache::pools_: pool_id -> [expiry]
    pool_last,          \* history: the last update_pool call
    \* ---- ingestor: OHLCV aggregator (ohlcv_aggregator.cpp) ----
    agg_now,            \* wall clock of the aggregator, in minutes
    active_bars_,       \* OHLCVAggregator::active_bars_: key -> [pool_id, interval_minutes, bar_start, points]
    completed_bars_,    \* OHLCVAggregator::completed_bars_
    agg_log             \* history: last call, keys of the bars completed, numbers of bars returned and discarded

scoringVars  == <<sc_pc, signals, risk_on, band_seen>>
throttleVars == <<now, alert_history_, recorded, last_gen>>
notifierVars == <<clock, kv, alert_queue_, command_queue_, running_, svc_pc, outbound,
                  relock, audit_log, handled_cmds, decided, last>>
busVars == <<bus_svc, stream_, last_delivered, pel, consumer_name, bus_running, polls,
             restarts, entry_log>>
gatewayVars == <<gw_now, pending_commands_, guest_sessions_, user_limits_, guest_pins,
                 req_stream, rep_stream, cursors, cmd_channel, reply_channel, next_corr,
                 gw_log, req_info, reply_log, passed>>
workerVars == <<update_queue_, an_running_, sub_running_, worker_pc, stop_pc, market_pc,
                an_arrived, an_acked, an_processed>>
backoffVars == <<bo_now, ping_ok, last_connection_attempt_, backoff_ms_, retry_count_, bo_last>>
regimeVars == <<rg_now, data_points_, risk_on_>>
cacheVars == <<market_updates_cache_, signals_cache_, cleanup_counter, api_last>>
insightVars == <<regimeVars, cacheVars, pm_last>>
lifeVars == <<gw_main, gw_running_, cleanup_thread_>>
raceVars == <<nstop_pc, login_pc, regime_log>>
poolVars == <<pc_now, pools_, pool_last>>
aggVars == <<agg_now, active_bars_, completed_bars_, agg_log>>
ingestorVars == <<poolVars, aggVars>>
analyticsVars == <<workerVars, backoffVars, insightVars>>
vars == <<config_, scoringVars, throttleVars, notifierVars, busVars, gatewayVars, analyticsVars,
          lifeVars, raceVars, ingestorVars>>

\* The variables a component's steps leave alone.
OutsideScoring ==
    UNCHANGED <<throttleVars, notifierVars, busVars, gatewayVars, analyticsVars, lifeVars, raceVars, ingestorVars>>
OutsideThrottle ==
    UNCHANGED <<scoringVars, notifierVars, busVars, gatewayVars, analyticsVars, lifeVars, raceVars, ingestorVars>>
OutsideNotifier ==
    UNCHANGED <<config_, scoringVars, throttleVars, busVars, gatewayVars, analyticsVars, lifeVars, raceVars, ingestorVars>>
OutsideBus ==
    UNCHANGED <<config_, scoringVars, throttleVars, notifierVars, gatewayVars, analyticsVars, lifeVars, raceVars, ingestorVars>>
OutsideGateway ==
    UNCHANGED <<config_, scoringVars, throttleVars, notifierVars, busVars, analyticsVars, lifeVars, raceVars, ingestorVars>>
OutsideWorker ==
    UNCHANGED <<config_, scoringVars, throttleVars, notifierVars, busVars, gatewayVars, backoffVars,
                insightVars, lifeVars, raceVars, ingestorVars>>
OutsideBackoff ==
    UNCHANGED <<config_, scoringVars, throttleVars, notifierVars, busVars, gatewayVars, workerVars,
                insightVars, lifeVars, raceVars, ingestorVars>>
OutsideRegime ==
    UNCHANGED <<config_, scoringVars, throttleVars, notifierVars, busVars, gatewayVars, workerVars,
                backoffVars, cacheVars, pm_last, lifeVars, raceVars, ingestorVars>>
OutsideLife ==
    UNCHANGED <<config_, scoringVars, throttleVars, notifierVars, busVars, analyticsVars,
                raceVars, ingestorVars>>

Min(a, b) == IF a < b THEN a ELSE b
Max(a, b) == IF a > b THEN a ELSE b

(***************************************************************************)
(* Analytics configuration (config.hpp defaults).                           *)
(***************************************************************************)
actionable_base_threshold == 70
risk_on_adj == -10
risk_off_adj == 10
hygiene_penalty == 10
min_dq_for_actionable == 70      \* 0.7, in hundredths
max_rug_cap == 55
headsup_min == 60
headsup_max == 69
high_conviction_min == 85

\* The throttle settings read by throttles.cpp; Config declares no defaults for them.
ThrottleSettings ==
    { [cooldown_high_conviction_min |-> 1, cooldown_actionable_min |-> 2,
       cooldown_headsup_min |-> 1, cooldown_watch_min |-> 1,
       rate_limit_window_min |-> 2, max_alerts_per_window |-> 2,
       max_high_conviction_per_window |-> 2, max_actionable_per_window |-> 1,
       max_headsup_per_window |-> 2, max_watch_per_window |-> 1],
      [cooldown_high_conviction_min |-> 1, cooldown_actionable_min |-> 1,
       cooldown_headsup_min |-> 1, cooldown_watch_min |-> 1,
       rate_limit_window_min |-> 3, max_alerts_per_window |-> 2,
       max_high_conviction_per_window |-> 1, max_actionable_per_window |-> 2,
       max_headsup_per_window |-> 2, max_watch_per_window |-> 2] }

DefaultScoring ==
    [actionable_base_threshold |-> actionable_base_threshold,
     risk_on_adj |-> risk_on_adj, risk_off_adj |-> risk_off_adj,
     hygiene_penalty |-> hygiene_penalty,
     min_dq_for_actionable |-> min_dq_for_actionable,
     max_rug_cap |-> max_rug_cap,
     headsup_min |-> headsup_min, headsup_max |-> headsup_max,
     high_conviction_min |-> high_conviction_min]

\* Threshold configurations the scoring claims are checked for: the defaults,
\* and one with other adjustments and a gap between the bands.
ScoringSettings ==
    { DefaultScoring,
      [DefaultScoring EXCEPT !.risk_on_adj = 15, !.risk_off_adj = -20,
                             !.headsup_min = 40, !.headsup_max = 50,
                             !.actionable_base_threshold = 60] }

Merge(f, g) == [k \in (DOMAIN f) \cup (DOMAIN g) |-> IF k \in DOMAIN f THEN f[k] ELSE g[k]]

DefaultThrottle == CHOOSE t \in ThrottleSettings : t.rate_limit_window_min = 2
DefaultConfig == Merge(DefaultScoring, DefaultThrottle)

(***************************************************************************)
(* ConfidenceScorer (scoring.cpp).  Signals and data quality are doubles   *)
(* in [0,1]; the model carries them in hundredths, so weighted_sum * 100   *)
(* is the integer part of sum(weight_pct * signal) / 100.                   *)
(***************************************************************************)
Bands == {"watch", "heads_up", "actionable", "high_conviction"}

weighted_sum_x100(s) ==
    (15 * s.s1_liquidity + 15 * s.s2_volume + 10 * s.s3_momentum_1h +
     10 * s.s4_momentum_24h + 5 * s.s5_volatility + 5 * s.s6_price_discovery +
     20 * s.s7_rug_risk + 10 * s.s8_tradability + 5 * s.s9_relative_strength +
     5 * s.s10_route_quality) \div 100

calculate_confidence(s, cfg) ==
    IF s.data_quality < cfg.min_dq_for_actionable
    THEN Min(50, s.data_quality)
    ELSE LET base0 == weighted_sum_x100(s)
             base1 == IF s.n1_hygiene < 50 THEN base0 - cfg.hygiene_penalty ELSE base0
             base2 == IF s.s7_rug_risk < 50 THEN Min(base1, cfg.max_rug_cap) ELSE base1
         IN Max(0, Min(100, base2))

apply_risk_adjustment(base_score, on, cfg) ==
    IF on THEN Min(100, base_score + cfg.risk_on_adj)
          ELSE Max(0, base_score + cfg.risk_off_adj)

determine_band_no_edge_gate(confidence_score, entry, edge, cfg) ==
    IF ~entry THEN "watch"
    ELSE IF confidence_score >= cfg.high_conviction_min THEN "high_conviction"
    ELSE IF confidence_score >= cfg.actionable_base_threshold THEN "actionable"
    ELSE IF confidence_score >= cfg.headsup_min /\ confidence_score <= cfg.headsup_max THEN "heads_up"
    ELSE "watch"

determine_band(confidence_score, entry, edge, cfg) ==
    IF ~entry THEN "watch"
    ELSE IF ~edge THEN "watch"
    ELSE IF confidence_score >= cfg.high_conviction_min THEN "high_conviction"
    ELSE IF confidence_score >= cfg.actionable_base_threshold THEN "actionable"
    ELSE IF confidence_score >= cfg.headsup_min /\ confidence_score <= cfg.headsup_max THEN "heads_up"
    ELSE "watch"

\* Signal sets the scoring steps are applied to (hundredths).
SignalInputs ==
    [s1_liquidity : {0, 100}, s2_volume : {0, 100}, s3_momentum_1h : {0, 100},
     s4_momentum_24h : {50}, s5_volatility : {0, 100}, s6_price_discovery : {0, 80},
     s7_rug_risk : {0, 49, 50, 90}, s8_tradability : {0, 100},
     s9_relative_strength : {70}, s10_route_quality : {100},
     n1_hygiene : {0, 100}, data_quality : {0, 52, 70, 100}]

NoSignals ==
    [s1_liquidity |-> 0, s2_volume |-> 0, s3_momentum_1h |-> 0, s4_momentum_24h |-> 0,
     s5_volatility |-> 0, s6_price_discovery |-> 0, s7_rug_risk |-> 0, s8_tradability |-> 0,
     s9_relative_strength |-> 0, s10_route_quality |-> 0, n1_hygiene |-> 0, data_quality |-> 0,
     confidence_score |-> 0, band |-> "watch", entry_confirmed |-> FALSE, net_edge_ok |-> FALSE]

ScoringIdle ==
    /\ sc_pc = "idle"
    /\ signals = NoSignals
    /\ risk_on = FALSE
    /\ band_seen = {}

ThrottleIdle ==
    /\ now = 0
    /\ alert_history_ = << >>
    /\ recorded = {}
    /\ last_gen = [called |-> FALSE, in_window |-> {}]

NotifierIdle ==
    /\ clock = 0
    /\ kv = << >>
    /\ alert_queue_ = << >>
    /\ command_queue_ = << >>
    /\ running_ = FALSE
    /\ svc_pc = "done"
    /\ outbound = << >>
    /\ relock = "granted"
    /\ audit_log = << >>
    /\ handled_cmds = << >>
    /\ decided = << >>
    /\ last = [made |-> FALSE]

BusIdle ==
    /\ bus_svc = "analytics"
    /\ stream_ = << >>
    /\ last_delivered = 0
    /\ pel = << >>
    /\ consumer_name = 0
    /\ bus_running = TRUE
    /\ polls = 0
    /\ restarts = 0
    /\ entry_log = << >>

BackoffBaseMs == 1000
BackoffCapMs == 30000

\* AnalyticsService after construction (running_ false, no threads, the queue
\* empty) and the bus Impl with its constructor's initial values.
WorkerIdle ==
    /\ update_queue_ = << >> /\ an_running_ = FALSE /\ sub_running_ = FALSE
    /\ worker_pc = "none" /\ stop_pc = "idle" /\ market_pc = "none"
    /\ an_arrived = 0 /\ an_acked = {} /\ an_processed = {}

BackoffIdle ==
    /\ bo_now = 0 /\ ping_ok = TRUE /\ last_connection_attempt_ = 0
    /\ backoff_ms_ = BackoffBaseMs /\ retry_count_ = 0
    /\ bo_last = [called |-> FALSE]

\* RegimeDetector and ApiSignalsHandler after construction.
InsightIdle ==
    /\ rg_now = 0 /\ data_points_ = << >> /\ risk_on_ = FALSE
    /\ market_updates_cache_ = << >> /\ signals_cache_ = << >> /\ cleanup_counter = 0
    /\ api_last = [called |-> FALSE]
    /\ pm_last = [n |-> 0]

\* No stop() call, no login under way, nothing logged; the ingestor's cache and
\* aggregator as constructed.
RaceIdle ==
    /\ nstop_pc = "idle"
    /\ login_pc = << >>
    /\ regime_log = [queued |-> << >>, n |-> 0]

IngestorIdle ==
    /\ pc_now = 0 /\ pools_ = << >> /\ pool_last = [called |-> FALSE]
    /\ agg_now = 0 /\ active_bars_ = << >> /\ completed_bars_ = << >>
    /\ agg_log = [op |-> "none", added |-> 0, completed |-> << >>, returned |-> 0, discarded |-> 0,
                  partial |-> 0, active_before |-> 0]

AnalyticsIdle == WorkerIdle /\ BackoffIdle /\ InsightIdle

\* TelegramGateway after its constructor: running_ is false and cleanup_thread_
\* holds the thread the constructor started, which has not run yet.
LifeIdle ==
    /\ gw_main = "constructed"
    /\ gw_running_ = FALSE
    /\ cleanup_thread_ = [joinable |-> TRUE, pc |-> "check", wake |-> 0]

NoReply == [corr_id |-> 0, known |-> FALSE, sent |-> FALSE]

GatewayIdle ==
    /\ gw_now = 0
    /\ pending_commands_ = << >>
    /\ guest_sessions_ = << >>
    /\ user_limits_ = << >>
    /\ guest_pins = << >>
    /\ req_stream = << >>
    /\ rep_stream = << >>
    /\ cursors = [notifier |-> 0, analytics |-> 0, tg_gateway |-> 0]
    /\ cmd_channel = 0
    /\ reply_channel = 0
    /\ next_corr = 0
    /\ gw_log = [n |-> 0, redeemed |-> {}]
    /\ req_info = << >>
    /\ reply_log = [replied |-> {}, swept |-> {}, relayed |-> {}, last |-> NoReply]
    /\ passed = << >>
    /\ LifeIdle

(***************************************************************************)
(* Scoring steps of process_market_update (analytics_service.cpp:158-176). *)
(***************************************************************************)
InitScoring ==
    /\ config_ \in {Merge(c, DefaultThrottle) : c \in ScoringSettings}
    /\ sc_pc = "signals"
    /\ \E s \in SignalInputs :
          signals = Merge(s, [confidence_score |-> 0, band |-> "watch",
                              entry_confirmed |-> FALSE, net_edge_ok |-> FALSE])
    /\ risk_on \in BOOLEAN
    /\ band_seen = {}
    /\ ThrottleIdle
    /\ NotifierIdle
    /\ BusIdle
    /\ GatewayIdle
    /\ AnalyticsIdle
    /\ RaceIdle /\ IngestorIdle

CalculateConfidence ==
    /\ sc_pc = "signals"
    /\ signals' = [signals EXCEPT !.confidence_score = calculate_confidence(signals, config_)]
    /\ sc_pc' = "confidence"
    /\ UNCHANGED <<config_, risk_on, band_seen>> /\ OutsideScoring

ApplyRiskAdjustment ==
    /\ sc_pc = "confidence"
    /\ signals' = [signals EXCEPT !.confidence_score =
                      apply_risk_adjustment(signals.confidence_score, risk_on, config_)]
    /\ sc_pc' = "adjusted"
    /\ UNCHANGED <<config_, risk_on, band_seen>> /\ OutsideScoring

\* entry_confirmed and net_edge_ok are EntryExitChecker's results.
DetermineBand ==
    /\ sc_pc \in {"adjusted", "band"}
    /\ \E entry \in BOOLEAN, edge \in BOOLEAN :
          LET b == determine_band(signals.confidence_score, entry, edge, config_) IN
          /\ signals' = [signals EXCEPT !.entry_confirmed = entry, !.net_edge_ok = edge,
                                        !.band = b]
          /\ band_seen' = band_seen \cup
                 {[confidence |-> signals.confidence_score, entry |-> entry,
                   edge |-> edge, band |-> b]}
    /\ sc_pc' = "band"
    /\ UNCHANGED <<config_, risk_on>> /\ OutsideScoring

NextScoring == CalculateConfidence \/ ApplyRiskAdjustment \/ DetermineBand

SpecScoring == InitScoring /\ [][NextScoring]_vars

(***************************************************************************)
(* ThrottleManager (throttles.cpp) and AnalyticsService::generate_alerts.  *)
(* Timestamps are system_clock time points; the model counts them in ticks *)
(* of 1/TicksPerMin minute, and duration_cast<minutes> truncates.          *)
(***************************************************************************)
TicksPerMin == 2
MaxTime == 6
Mints == {"A", "B"}

elapsed_minutes(t, ts) == (t - ts) \div TicksPerMin

cooldown_minutes(b, cfg) ==
    IF b = "high_conviction" THEN cfg.cooldown_high_conviction_min
    ELSE IF b = "actionable" THEN cfg.cooldown_actionable_min
    ELSE IF b = "heads_up" THEN cfg.cooldown_headsup_min
    ELSE cfg.cooldown_watch_min

max_band_alerts(b, cfg) ==
    IF b = "high_conviction" THEN cfg.max_high_conviction_per_window
    ELSE IF b = "actionable" THEN cfg.max_actionable_per_window
    ELSE IF b = "heads_up" THEN cfg.max_headsup_per_window
    ELSE cfg.max_watch_per_window

Indices(h) == 1..Len(h)

should_throttle(mint, b, h, t, cfg) ==
    \/ \E i \in Indices(h) :
          /\ h[i].mint = mint
          /\ elapsed_minutes(t, h[i].timestamp) < cooldown_minutes(b, cfg)
    \/ Cardinality({i \in Indices(h) :
            elapsed_minutes(t, h[i].timestamp) < cfg.rate_limit_window_min})
          >= cfg.max_alerts_per_window
    \/ Cardinality({i \in Indices(h) :
            /\ h[i].band = b
            /\ elapsed_minutes(t, h[i].timestamp) < cfg.rate_limit_window_min})
          >= max_band_alerts(b, cfg)

max_cooldown(cfg) ==
    Max(Max(cfg.cooldown_high_conviction_min, cfg.cooldown_actionable_min),
        Max(cfg.cooldown_headsup_min, cfg.cooldown_watch_min))

min_cooldown(cfg) ==
    Min(Min(cfg.cooldown_high_conviction_min, cfg.cooldown_actionable_min),
        Min(cfg.cooldown_headsup_min, cfg.cooldown_watch_min))

\* std::remove_if keeps the relative order of the records that stay.
cleanup_min_cooldown(h, t, cfg) ==
    SelectSeq(h, LAMBDA r : ~(elapsed_minutes(t, r.timestamp) >= min_cooldown(cfg)))

cleanup(h, t, cfg) ==
    SelectSeq(h, LAMBDA r : ~(elapsed_minutes(t, r.timestamp) > max_cooldown(cfg)))

record_alert(mint, b, h, t, cfg) ==
    cleanup(Append(h, [mint |-> mint, band |-> b, timestamp |-> t]), t, cfg)

\* generate_alerts with the record made before the publish result is known.
generate_alerts_record_first(mint, b, h, t, t_pub, publish_ok, cfg) ==
    IF b = "watch" THEN [attempted |-> FALSE, published |-> FALSE, record_called |-> FALSE, history |-> h]
    ELSE IF should_throttle(mint, b, h, t, cfg)
    THEN [attempted |-> FALSE, published |-> FALSE, record_called |-> FALSE, history |-> h]
    ELSE [attempted |-> TRUE, published |-> publish_ok, record_called |-> TRUE,
          history |-> record_alert(mint, b, h, t_pub, cfg)]

\* t is the time of the should_throttle call, t_pub the time publish_alert returned.
generate_alerts(mint, b, h, t, t_pub, publish_ok, cfg) ==
    IF b = "watch" THEN [attempted |-> FALSE, published |-> FALSE, record_called |-> FALSE, history |-> h]
    ELSE IF should_throttle(mint, b, h, t, cfg)
    THEN [attempted |-> FALSE, published |-> FALSE, record_called |-> FALSE, history |-> h]
    ELSE IF publish_ok
    THEN [attempted |-> TRUE, published |-> TRUE, record_called |-> TRUE,
          history |-> record_alert(mint, b, h, t_pub, cfg)]
    ELSE [attempted |-> TRUE, published |-> FALSE, record_called |-> FALSE, history |-> h]

InitThrottle ==
    /\ config_ \in {Merge(DefaultScoring, t) : t \in ThrottleSettings}
    /\ ScoringIdle
    /\ ThrottleIdle
    /\ NotifierIdle
    /\ BusIdle
    /\ GatewayIdle
    /\ AnalyticsIdle
    /\ RaceIdle /\ IngestorIdle

\* The record_alert calls that are still inside their band's cooldown at time t.
StillCooling(rs, t, cfg) ==
    {r \in rs : (t - r.timestamp) < cooldown_minutes(r.band, cfg) * TicksPerMin}

\* The alerts published less than rate_limit_window_min minutes before t.
InWindow(ps, t, cfg) ==
    {p \in ps : (t - p.timestamp) < cfg.rate_limit_window_min * TicksPerMin}

\* One call of generate_alerts for an update of `mint` whose band is `b`;
\* publish_alert succeeds or fails and returns at time t_pub.
GenerateAlertsCall(mint, b, publish_ok, t_pub) ==
    LET r == generate_alerts(mint, b, alert_history_, now, t_pub, publish_ok, config_) IN
    /\ alert_history_' = r.history
    /\ now' = t_pub
    /\ recorded' = StillCooling(
                      IF r.record_called
                      THEN recorded \cup {[mint |-> mint, band |-> b, timestamp |-> t_pub]}
                      ELSE recorded, t_pub, config_)
    /\ last_gen' = [called |-> TRUE, watch |-> (b = "watch"),
                    throttled |-> should_throttle(mint, b, alert_history_, now, config_),
                    attempted |-> r.attempted, publish_ok |-> publish_ok,
                    published |-> r.published, record_called |-> r.record_called,
                    history_changed |-> (r.history # alert_history_),
                    in_window |-> InWindow(
                        IF r.published
                        THEN last_gen.in_window \cup {[mint |-> mint, band |-> b, timestamp |-> t_pub]}
                        ELSE last_gen.in_window, t_pub, config_)]
    /\ UNCHANGED config_ /\ OutsideThrottle

\* The update is dropped before any publish: band "watch" or throttled.
GenerateAlertsSkip ==
    \E mint \in Mints, b \in Bands :
        /\ b = "watch" \/ should_throttle(mint, b, alert_history_, now, config_)
        /\ GenerateAlertsCall(mint, b, TRUE, now)

GenerateAlertsPublish ==
    \E mint \in Mints, b \in Bands, publish_ok \in BOOLEAN, d \in {0, 1} :
        /\ ~(b = "watch" \/ should_throttle(mint, b, alert_history_, now, config_))
        /\ now + d <= MaxTime
        /\ GenerateAlertsCall(mint, b, publish_ok, now + d)

Tick ==
    /\ now < MaxTime
    /\ now' = now + 1
    /\ recorded' = StillCooling(recorded, now + 1, config_)
    /\ UNCHANGED <<config_, alert_history_, last_gen>> /\ OutsideThrottle

NextThrottle == GenerateAlertsSkip \/ GenerateAlertsPublish \/ Tick

SpecThrottle == InitThrottle /\ [][NextThrottle]_vars

(***************************************************************************)
(* Notifier: the Redis keys used by Throttler and Deduplicator.  A key is  *)
(* present while it is in DOMAIN kv; AdvanceTime removes the keys whose    *)
(* expiry has passed.  Values are the decimal strings Redis stores, kept   *)
(* as the integers std::stoi reads from them.                              *)
(***************************************************************************)
NoExpiry == -1
mute_key_ == <<"notifier:mute_status">>
global_throttle_key_ == <<"notifier:global_throttle:actionable">>

KvSet(m, k, v, e) == [x \in (DOMAIN m) \cup {k} |-> IF x = k THEN [val |-> v, exp |-> e] ELSE m[x]]
KvDel(m, k) == [x \in (DOMAIN m) \ {k} |-> m[x]]
KvExpire(m, t) == [x \in {y \in DOMAIN m : m[y].exp = NoExpiry \/ t < m[y].exp} |-> m[x]]

\* Settings read by throttler.cpp and deduplicator.cpp (seconds).  config.hpp
\* sets a dedup period of 21600 s and 5 actionable alerts per hour; the periods
\* here are short enough to run out within MaxClock.
NotifierSettings ==
    [dedupe_period_sec |-> 120, global_throttle_limit |-> 1, global_throttle_period_sec |-> 60]

\* Strings are sequences of character codes, reason lines sequences of strings.
RECURSIVE Concat(_)
Concat(lines) == IF lines = << >> THEN << >> ELSE Head(lines) \o Concat(Tail(lines))

\* std::hash<std::string> is a deterministic function of the characters; a
\* polynomial hash stands for it.
HashMod == 65521
RECURSIVE hasher(_)
hasher(str) == IF str = << >> THEN 7 ELSE (hasher(Tail(str)) * 31 + Head(str)) % HashMod

generate_reason_hash(reasons) == hasher(Concat(reasons))

dedupe_key(alert) == <<"notifier:dedupe", alert.mint, generate_reason_hash(alert.lines)>>

\* Throttler::is_muted: EXISTS on the mute key; an exception gives false.
is_muted(m, throws) == IF throws THEN FALSE ELSE mute_key_ \in DOMAIN m

\* Throttler::is_globally_throttled: only "actionable" reads the counter.
is_globally_throttled(severity, m, throws, cfg) ==
    IF severity # "actionable" THEN FALSE
    ELSE IF throws THEN TRUE
    ELSE global_throttle_key_ \in DOMAIN m /\ m[global_throttle_key_].val >= cfg.global_throttle_limit

\* Deduplicator::is_duplicate: SET key "1" EX dedupe_period_sec NX.
\* The result is [dup, kv]: whether the alert is a duplicate, and the keys afterwards.
is_duplicate(alert, m, t, throws, cfg) ==
    IF throws THEN [dup |-> TRUE, kv |-> m]
    ELSE IF dedupe_key(alert) \in DOMAIN m THEN [dup |-> TRUE, kv |-> m]
    ELSE [dup |-> FALSE, kv |-> KvSet(m, dedupe_key(alert), 1, t + cfg.dedupe_period_sec)]

\* Throttler::record_actionable_alert: INCR, then EXPIRE when the result is 1.
record_actionable_alert(m, t, incr_throws, expire_throws, cfg) ==
    IF incr_throws THEN m
    ELSE LET k == global_throttle_key_
             result == IF k \in DOMAIN m THEN m[k].val + 1 ELSE 1
             e == IF k \in DOMAIN m THEN m[k].exp ELSE NoExpiry
             m1 == KvSet(m, k, result, e)
         IN IF result = 1 /\ ~expire_throws
            THEN KvSet(m1, k, result, t + cfg.global_throttle_period_sec)
            ELSE m1

\* Throttler::set_mute: SETEX with minutes * 60; Redis rejects a ttl <= 0 and
\* the exception is swallowed.
set_mute(m, minutes, t, throws) ==
    IF throws \/ minutes * 60 <= 0 THEN m
    ELSE KvSet(m, mute_key_, 1, t + minutes * 60)

clear_mute(m, throws) == IF throws THEN m ELSE KvDel(m, mute_key_)

\* std::stoi on the argument strings used here; ok is false where it throws.
stoi(str) ==
    IF str = "0" THEN [ok |-> TRUE, value |-> 0]
    ELSE IF str = "1" THEN [ok |-> TRUE, value |-> 1]
    ELSE IF str = "30" THEN [ok |-> TRUE, value |-> 30]
    ELSE [ok |-> FALSE, value |-> 0]

mute_minutes(args) ==
    IF args = << >> THEN 60
    ELSE IF stoi(args[1]).ok THEN stoi(args[1]).value ELSE 60

Gates == <<"mute", "throttle", "dedup", "publish">>

Range(q) == {q[i] : i \in 1..Len(q)}

\* NotifierService::handle_inbound_alert up to the audit call.  env says which
\* store calls throw and whether publish_outbound_alert succeeds.  The result
\* carries the decided outcome, the gates evaluated, and the keys afterwards.
\* First a variant that asks the deduplicator before the other two gates.
handle_inbound_alert_dedup_first(alert, m, t, env, cfg) ==
    LET d == is_duplicate(alert, m, t, env.dedup_throws, cfg) IN
    IF d.dup
    THEN [outcome |-> "DUPLICATE", gates |-> <<"dedup">>, kv |-> d.kv, published |-> FALSE,
          store_failed |-> env.dedup_throws]
    ELSE IF is_muted(m, env.mute_throws)
    THEN [outcome |-> "MUTED", gates |-> <<"dedup", "mute">>, kv |-> d.kv, published |-> FALSE,
          store_failed |-> FALSE]
    ELSE IF is_globally_throttled(alert.severity, m, env.throttle_throws, cfg)
    THEN [outcome |-> "THROTTLED", gates |-> <<"dedup", "mute", "throttle">>, kv |-> d.kv,
          published |-> FALSE, store_failed |-> env.mute_throws]
    ELSE [outcome |-> IF env.publish_ok THEN "SENT" ELSE "PUBLISH_FAILED",
          gates |-> <<"dedup", "mute", "throttle", "publish">>,
          kv |-> IF env.publish_ok /\ alert.severity = "actionable"
                 THEN record_actionable_alert(d.kv, t, env.incr_throws, env.expire_throws, cfg)
                 ELSE d.kv,
          published |-> env.publish_ok, store_failed |-> env.mute_throws]

\* NotifierService::handle_inbound_alert (see above).
handle_inbound_alert(alert, m, t, env, cfg) ==
    IF is_muted(m, env.mute_throws)
    THEN [outcome |-> "MUTED", gates |-> <<"mute">>, kv |-> m, published |-> FALSE,
          store_failed |-> FALSE]
    ELSE IF is_globally_throttled(alert.severity, m, env.throttle_throws, cfg)
    THEN [outcome |-> "THROTTLED", gates |-> <<"mute", "throttle">>, kv |-> m,
          published |-> FALSE,
          store_failed |-> env.mute_throws \/ (alert.severity = "actionable" /\ env.throttle_throws)]
    ELSE LET d == is_duplicate(alert, m, t, env.dedup_throws, cfg) IN
         IF d.dup
         THEN [outcome |-> "DUPLICATE", gates |-> <<"mute", "throttle", "dedup">>, kv |-> d.kv,
               published |-> FALSE, store_failed |-> env.mute_throws \/ env.dedup_throws]
         ELSE [outcome |-> IF env.publish_ok THEN "SENT" ELSE "PUBLISH_FAILED",
               gates |-> Gates,
               kv |-> IF env.publish_ok /\ alert.severity = "actionable"
                      THEN record_actionable_alert(d.kv, t, env.incr_throws, env.expire_throws, cfg)
                      ELSE d.kv,
               published |-> env.publish_ok, store_failed |-> env.mute_throws]

\* NotifierService::handle_command_request: the effect on the keys.
handle_command_request(req, m, t, throws) ==
    IF req.command = "/status" THEN m
    ELSE IF req.command = "/mute" THEN set_mute(m, mute_minutes(req.args), t, throws)
    ELSE IF req.command = "/unmute" THEN clear_mute(m, throws)
    ELSE m

(***************************************************************************)
(* Notifier: consumers' callbacks, service_loop, time.                      *)
(***************************************************************************)
MaxAlerts == 2
MaxCommands == 2
MaxClock == 120
TimeStep == 60

\* "ab","c" and "a","bc": different reason lines with the same concatenation.
LinesAbC == << <<97, 98>>, <<99>> >>
LinesABc == << <<97>>, <<98, 99>> >>

InboundAlerts ==
    { [mint |-> "A", severity |-> "actionable", lines |-> LinesAbC],
      [mint |-> "B", severity |-> "heads_up", lines |-> LinesABc] }

\* "mute" is the command name as the gateway forwards it (leading '/' removed).
CommandInputs ==
    { [command |-> "/mute", args |-> <<"1">>], [command |-> "/unmute", args |-> << >>],
      [command |-> "mute", args |-> << >>] }

Envs ==
    [mute_throws : BOOLEAN, throttle_throws : BOOLEAN, dedup_throws : BOOLEAN,
     publish_ok : BOOLEAN, incr_throws : BOOLEAN, expire_throws : BOOLEAN]

\* AuditLogger::log_event locks conn_mutex_ and calls check_health, which locks
\* it again: relocking a std::mutex the thread owns is undefined.  Depending on
\* the build the thread blocks forever, or lock() throws std::system_error
\* (nothing up to the thread function catches it), or the lock is granted.
RelockOutcomes == {"deadlock", "throws", "granted"}

\* The environments that differ in a call the handler actually makes.
EnvsOf(alert, m, t, cfg) ==
    {env \in Envs :
        LET r == handle_inbound_alert(alert, m, t, env, cfg) IN
        /\ ("throttle" \notin Range(r.gates) \/ alert.severity # "actionable") => ~env.throttle_throws
        /\ "dedup" \notin Range(r.gates) => ~env.dedup_throws
        /\ "publish" \notin Range(r.gates) => env.publish_ok
        /\ ~(r.published /\ alert.severity = "actionable") => (~env.incr_throws /\ ~env.expire_throws)
        /\ env.incr_throws => ~env.expire_throws}

NumAlertsDelivered == Len(decided) + Len(alert_queue_)
NumCommandsDelivered == Len(handled_cmds) + Len(command_queue_)

IsMuteCmd(c) == c.command \in {"/mute", "/unmute"}

\* The commands delivered so far, in delivery order.
DeliveredCmds ==
    [i \in 1..NumCommandsDelivered |->
        IF i <= Len(handled_cmds)
        THEN [command |-> handled_cmds[i].command, minutes |-> handled_cmds[i].minutes]
        ELSE [command |-> command_queue_[i - Len(handled_cmds)].command,
              minutes |-> mute_minutes(command_queue_[i - Len(handled_cmds)].args)]]

\* The number of the latest mute-affecting command delivered so far if that
\* command is a /mute for at least a minute, else 0.
LatestMute ==
    LET I == {i \in 1..NumCommandsDelivered : IsMuteCmd(DeliveredCmds[i])} IN
    IF I = {} THEN 0
    ELSE LET i == CHOOSE x \in I : \A y \in I : y <= x IN
         IF DeliveredCmds[i].command = "/mute" /\ DeliveredCmds[i].minutes >= 1 THEN i ELSE 0

\* Command number n (a /mute) is still waiting, or its mute period still runs at
\* t, and no later /mute or /unmute has been handled.
MuteInEffect(n, t) ==
    /\ n > 0
    /\ \A i \in (n + 1)..Len(handled_cmds) : ~IsMuteCmd(handled_cmds[i])
    /\ \/ n > Len(handled_cmds)
       \/ t < handled_cmds[n].at + 60 * handled_cmds[n].minutes

\* The last mute-affecting command handled is a /mute whose period still runs at t.
MuteHandledActive(t) ==
    LET I == {i \in 1..Len(handled_cmds) : IsMuteCmd(handled_cmds[i])} IN
    /\ I # {}
    /\ LET c == handled_cmds[CHOOSE i \in I : \A j \in I : j <= i] IN
       /\ c.command = "/mute"
       /\ c.minutes >= 1
       /\ t < c.at + 60 * c.minutes

InitNotifier ==
    /\ config_ = DefaultConfig
    /\ ScoringIdle
    /\ ThrottleIdle
    /\ BusIdle
    /\ GatewayIdle
    /\ AnalyticsIdle
    /\ RaceIdle /\ IngestorIdle
    /\ clock = 0
    /\ kv = << >>
    /\ alert_queue_ = << >>
    /\ command_queue_ = << >>
    /\ running_ = TRUE
    /\ svc_pc = "alerts"
    /\ relock \in RelockOutcomes
    /\ outbound = << >>
    /\ audit_log = << >>
    /\ handled_cmds = << >>
    /\ decided = << >>
    /\ last = [made |-> FALSE]

\* The alert consumer's callback (NotifierService::run).
DeliverAlert ==
    /\ running_ /\ svc_pc # "terminated"
    /\ NumAlertsDelivered < MaxAlerts
    /\ \E a \in InboundAlerts :
          alert_queue_' = Append(alert_queue_, [alert |-> a, mute_ref |-> LatestMute])
    /\ UNCHANGED <<clock, kv, command_queue_, running_, svc_pc, relock, outbound, audit_log,
                   handled_cmds, decided, last>>
    /\ OutsideNotifier

\* The command consumer's callback (NotifierService::run).
DeliverCommand ==
    /\ running_ /\ svc_pc # "terminated"
    /\ NumCommandsDelivered < MaxCommands
    /\ \E c \in CommandInputs :
          command_queue_' = Append(command_queue_, c)
    /\ UNCHANGED <<clock, kv, alert_queue_, running_, svc_pc, relock, outbound, audit_log,
                   handled_cmds, decided, last>>
    /\ OutsideNotifier

\* service_loop, first block: wait for an alert (or for stop), handle it.
ServiceAlert ==
    /\ svc_pc = "alerts"
    /\ alert_queue_ # << >>
    /\ \E env \in EnvsOf(Head(alert_queue_).alert, kv, clock, NotifierSettings) :
          LET item == Head(alert_queue_)
              r == handle_inbound_alert(item.alert, kv, clock, env, NotifierSettings)
          IN
          /\ alert_queue_' = Tail(alert_queue_)
          /\ kv' = r.kv
          /\ outbound' = IF r.published THEN Append(outbound, item.alert) ELSE outbound
          /\ decided' = Append(decided,
                 [alert |-> item.alert, outcome |-> r.outcome, at |-> clock])
          /\ last' = [made |-> TRUE, outcome |-> r.outcome, gates |-> r.gates,
                      store_failed |-> r.store_failed, published |-> r.published,
                      alert |-> item.alert, env |-> env, kv_before |-> kv, kv_after |-> r.kv,
                      mute_before |-> MuteInEffect(item.mute_ref, clock),
                      mute_active |-> MuteHandledActive(clock)]
          /\ audit_log' = IF relock = "granted"
                          THEN Append(audit_log, r.outcome)
                          ELSE audit_log
          /\ svc_pc' = IF relock = "granted" THEN "commands"
                       ELSE IF relock = "deadlock" THEN "blocked" ELSE "terminated"
    /\ UNCHANGED <<clock, command_queue_, running_, relock, handled_cmds>>
    /\ OutsideNotifier

\* service_loop, first block after stop(): the wait returns with an empty queue.
ServiceExit ==
    /\ svc_pc = "alerts"
    /\ ~running_
    /\ alert_queue_ = << >>
    /\ svc_pc' = "done"
    /\ UNCHANGED <<clock, kv, alert_queue_, command_queue_, running_, relock, outbound,
                   audit_log, handled_cmds, decided, last>>
    /\ OutsideNotifier

\* service_loop, second block: handle one command if there is one.
ServiceCommand ==
    /\ svc_pc = "commands"
    /\ IF command_queue_ # << >>
       THEN \E throws \in BOOLEAN :
               LET req == Head(command_queue_) IN
               /\ throws => IsMuteCmd(req)
               /\ command_queue_' = Tail(command_queue_)
               /\ kv' = handle_command_request(req, kv, clock, throws)
               /\ handled_cmds' = Append(handled_cmds,
                      [command |-> req.command, minutes |-> mute_minutes(req.args), at |-> clock])
       ELSE UNCHANGED <<command_queue_, kv, handled_cmds>>
    /\ svc_pc' = IF running_ THEN "alerts" ELSE "done"
    /\ UNCHANGED <<clock, alert_queue_, running_, relock, outbound, audit_log, decided, last>>
    /\ OutsideNotifier

\* NotifierService::stop: running_ = false, the waiters are notified, the consumers stop.
Stop ==
    /\ running_
    /\ running_' = FALSE
    /\ UNCHANGED <<clock, kv, alert_queue_, command_queue_, svc_pc, relock, outbound, audit_log,
                   handled_cmds, decided, last>>
    /\ OutsideNotifier

\* A minute passes; Redis drops the keys whose expiry has been reached.
AdvanceTime ==
    /\ clock + TimeStep <= MaxClock
    /\ clock' = clock + TimeStep
    /\ kv' = KvExpire(kv, clock + TimeStep)
    /\ UNCHANGED <<alert_queue_, command_queue_, running_, svc_pc, relock, outbound, audit_log,
                   handled_cmds, decided, last>>
    /\ OutsideNotifier

NextNotifier ==
    \/ DeliverAlert \/ DeliverCommand
    \/ ServiceAlert \/ ServiceCommand
    \/ AdvanceTime

SpecNotifier == InitNotifier /\ [][NextNotifier]_vars

(***************************************************************************)
(* Stream consumers: subscribe_market_updates (analytics),                  *)
(* alert_consumer_loop (notifier), reply_consumer_loop (tg_gateway).        *)
(***************************************************************************)
MaxMessages == 3
MaxRestarts == 1

Services == {"analytics", "notifier", "tg_gateway"}

\* What a stream entry carries: a well-formed document under "data", text that
\* is no JSON, a JSON document without a required field, or no "data" field.
Payloads == {"ok", "invalid_json", "missing_field", "no_data"}

\* What the loop's inner try block does with one entry.  cb_throws: the
\* callback throws; ack_throws: XACK throws; ub: how the build resolves the
\* gateway's const operator[] on an absent key ("throws" or "abort").
\* called: the callback ran; threw: an exception reached the inner catch;
\* acked: XACK removed the entry from the pending list; alive: the process goes on.
Skip(acked) == [called |-> FALSE, threw |-> FALSE, acked |-> acked, alive |-> TRUE]
Threw(called) == [called |-> called, threw |-> TRUE, acked |-> FALSE, alive |-> TRUE]
Handled(ack_throws) ==
    [called |-> TRUE, threw |-> ack_throws, acked |-> ~ack_throws, alive |-> TRUE]

\* MarketUpdate::from_json returns std::optional: no value for a document it rejects.
MarketUpdate_from_json(payload) == payload = "ok"

process_entry(svc, payload, cb_throws, ack_throws, ub) ==
    IF svc = "analytics"
    THEN IF payload = "no_data" THEN
             IF ack_throws THEN Threw(FALSE) ELSE Skip(TRUE)
         ELSE IF payload = "invalid_json" THEN Threw(FALSE)
         ELSE IF ~MarketUpdate_from_json(payload) THEN
             IF ack_throws THEN Threw(FALSE) ELSE Skip(TRUE)
         ELSE IF cb_throws THEN Threw(TRUE)
         ELSE Handled(ack_throws)
    ELSE IF svc = "notifier"
    THEN IF payload = "no_data" THEN Skip(FALSE)
         ELSE IF payload \in {"invalid_json", "missing_field"} THEN Threw(FALSE)
         ELSE IF cb_throws THEN Threw(TRUE)
         ELSE Handled(ack_throws)
    ELSE IF payload = "no_data" THEN Skip(FALSE)
         ELSE IF payload = "invalid_json" THEN Threw(FALSE)
         ELSE IF payload = "missing_field" THEN
             IF ub = "abort"
             THEN [called |-> FALSE, threw |-> FALSE, acked |-> FALSE, alive |-> FALSE]
             ELSE Threw(FALSE)
         ELSE IF cb_throws THEN Threw(TRUE)
         ELSE Handled(ack_throws)

\* The environments that differ in a step the loop actually takes.
BusEnvs(svc, payload) ==
    {e \in [cb_throws : BOOLEAN, ack_throws : BOOLEAN, ub : {"throws", "abort"}] :
        /\ e.cb_throws => payload = "ok"
        /\ e.ack_throws => (\/ payload = "ok" /\ ~e.cb_throws
                            \/ svc = "analytics" /\ payload \in {"no_data", "missing_field"})
        /\ e.ub = "abort" => (svc = "tg_gateway" /\ payload = "missing_field")}

\* XREADGROUP with id ">": the entries never delivered to any consumer of the
\* group; an entry in the pending list is not among them.
xreadgroup_new == IF last_delivered < Len(stream_) THEN {last_delivered + 1} ELSE {}

InitBus ==
    /\ config_ = DefaultConfig
    /\ ScoringIdle
    /\ ThrottleIdle
    /\ NotifierIdle
    /\ GatewayIdle
    /\ AnalyticsIdle
    /\ RaceIdle /\ IngestorIdle
    /\ bus_svc \in Services
    /\ stream_ = << >>
    /\ last_delivered = 0
    /\ pel = << >>
    /\ consumer_name = 0
    /\ bus_running = TRUE
    /\ polls = 0
    /\ restarts = 0
    /\ entry_log = << >>

\* A producer appends an entry to the stream.
XAdd ==
    /\ Len(stream_) < MaxMessages
    /\ \E payload \in Payloads :
          /\ stream_' = Append(stream_, payload)
          /\ entry_log' = Append(entry_log, [reads |-> 0, handler |-> "not_called"])
    /\ UNCHANGED <<bus_svc, last_delivered, pel, consumer_name, bus_running, polls, restarts>>
    /\ OutsideBus

\* One iteration of the loop whose read returns an entry: the group hands it
\* over and lists it as pending, the inner try block runs.
Consume ==
    /\ bus_running
    /\ \E id \in xreadgroup_new :
       \E e \in BusEnvs(bus_svc, stream_[id]) :
          LET r == process_entry(bus_svc, stream_[id], e.cb_throws, e.ack_throws, e.ub)
              listed == [x \in (DOMAIN pel) \cup {id} |-> IF x = id THEN consumer_name ELSE pel[x]]
          IN
          /\ last_delivered' = id
          /\ pel' = IF r.acked THEN pel ELSE listed
          /\ entry_log' = [entry_log EXCEPT ![id] =
                 [reads |-> @.reads + 1,
                  handler |-> IF ~r.called THEN "not_called"
                              ELSE IF e.cb_throws THEN "threw" ELSE "returned"]]
          /\ bus_running' = r.alive
    /\ polls' = 1 - polls
    /\ UNCHANGED <<bus_svc, stream_, consumer_name, restarts>>
    /\ OutsideBus

\* One iteration of the loop whose read times out: nothing new in the stream.
PollEmpty ==
    /\ bus_running
    /\ xreadgroup_new = {}
    /\ polls' = 1 - polls
    /\ UNCHANGED <<bus_svc, stream_, last_delivered, pel, consumer_name, bus_running, restarts,
                   entry_log>>
    /\ OutsideBus

\* The process is restarted: the thread id or the pid in the consumer's name
\* may or may not be the one of the previous run; the group keeps its state.
Restart ==
    /\ restarts < MaxRestarts
    /\ restarts' = restarts + 1
    /\ bus_running' = TRUE
    /\ consumer_name' \in {consumer_name, consumer_name + 1}
    /\ UNCHANGED <<bus_svc, stream_, last_delivered, pel, polls, entry_log>>
    /\ OutsideBus

NextBus == XAdd \/ Consume \/ PollEmpty \/ Restart

\* while (running_) { xreadgroup ... }: a live loop keeps iterating.
SpecBus == InitBus /\ [][NextBus]_vars /\ WF_vars(Consume) /\ WF_vars(PollEmpty)

(***************************************************************************)
(* Telegram gateway: rate limiter, command ACL, guest PINs, forwarding of   *)
(* commands and relaying of replies (tg_gateway), and the services that     *)
(* answer commands (notifier, analytics, portfolio).                        *)
(***************************************************************************)
GwTicksPerMin == 2
owner_telegram_id == 1
GwUsers == {owner_telegram_id, 2}

\* Gateway settings (config.cpp reads 20 messages a minute and 30 guest
\* minutes from the environment by default; small values here).
rate_limit_msgs_per_min == 2
guest_default_minutes == 2
PendingMaxAgeMin == 5
LimitWindowMin == 1
LimitKeepMin == 2

Minutes(n) == n * GwTicksPerMin

Put(f, k, v) == [x \in (DOMAIN f) \cup {k} |-> IF x = k THEN v ELSE f[x]]
Restrict(f, S) == [x \in S |-> f[x]]

\* UserSession::is_expired and AuthManager::get_user_role.
is_expired(session, t) == t > session.expires_at

get_user_role(tg_user_id, sessions, t) ==
    IF tg_user_id = owner_telegram_id THEN "OWNER"
    ELSE IF tg_user_id \in DOMAIN sessions /\ ~is_expired(sessions[tg_user_id], t) THEN "GUEST"
    ELSE "UNKNOWN"

GuestCommands == {"start", "help", "balance", "holdings", "signals", "health"}

\* A variant of the ACL that lets a guest use every command.
is_command_allowed_guest_all(cmd, role) == role \in {"OWNER", "GUEST"}

is_command_allowed(cmd, role) ==
    IF role = "OWNER" THEN TRUE
    ELSE IF role = "GUEST" THEN cmd \in GuestCommands
    ELSE FALSE

\* RateLimiter::check_user_rate_limit; a user without an entry gets one whose
\* window_start is the epoch.  The result is [pass, limits].
check_user_rate_limit(limits, user_id, t) ==
    LET reset == user_id \notin DOMAIN limits
                 \/ t - limits[user_id].window_start > Minutes(LimitWindowMin)
        data == IF reset THEN [window_start |-> t, message_count |-> 0] ELSE limits[user_id]
    IN IF data.message_count >= rate_limit_msgs_per_min
       THEN [pass |-> FALSE, limits |-> Put(limits, user_id, data)]
       ELSE [pass |-> TRUE,
             limits |-> Put(limits, user_id, [data EXCEPT !.message_count = @ + 1])]

cleanup_old_entries(limits, t) ==
    Restrict(limits, {u \in DOMAIN limits : ~(t - limits[u].window_start > Minutes(LimitKeepMin))})

cleanup_expired_sessions(sessions, t) ==
    Restrict(sessions, {u \in DOMAIN sessions : ~is_expired(sessions[u], t)})

\* A variant of the sweep that also drops the entries exactly five minutes old.
erase_stale_pending_at_limit(pending, t) ==
    Restrict(pending, {c \in DOMAIN pending : t - pending[c].timestamp < Minutes(PendingMaxAgeMin)})

\* cleanup_loop: std::erase_if(pending_commands_, now - timestamp > 5 min).
erase_stale_pending(pending, t) ==
    Restrict(pending,
             {c \in DOMAIN pending : ~(t - pending[c].timestamp > Minutes(PendingMaxAgeMin))})

\* A Telegram text: whether it starts with '/', and its words (the first one
\* without the '/').  CommandParser::parse gives no command for other text.
parse(text) ==
    IF ~text.slash \/ text.words = << >> THEN [ok |-> FALSE]
    ELSE [ok |-> TRUE, command |-> Head(text.words), args |-> Tail(text.words)]

\* ParsedCommand::get_int_arg(0).value_or(dflt).
get_int_arg_or(args, dflt) ==
    IF args = << >> THEN dflt
    ELSE IF stoi(args[1]).ok THEN stoi(args[1]).value ELSE dflt

is_valid_address(str) == str = "addr"

\* What one call of handle_telegram_update_struct leaves behind.  G holds the
\* gateway's maps and keys; env says which Redis calls throw and which PIN
\* generate_pin draws.
GwResult(G, outcome, sent, audit) ==
    [limits |-> G.limits, sessions |-> G.sessions, pins |-> G.pins, pending |-> G.pending,
     nextc |-> G.nextc, outcome |-> outcome, sent |-> sent, audit |-> audit,
     request |-> [corr_id |-> 0], role |-> "none"]

\* TelegramGateway::handle_guest_login.
handle_guest_login(pin, user_id, t, G, env) ==
    IF env.get_throws \/ pin \notin DOMAIN G.pins
    THEN GwResult(G, "login_invalid", <<"invalid_pin">>, "none")
    ELSE GwResult([G EXCEPT
             !.sessions = Put(@, user_id, [expires_at |-> t + Minutes(guest_default_minutes),
                                           pin_exp |-> G.pins[pin].exp]),
             !.pins = IF env.del_throws THEN @ ELSE Restrict(@, DOMAIN @ \ {pin})],
           "login_ok", <<"guest_granted">>, "guest_login")

\* TelegramGateway::handle_local_command for the command guest (owner only):
\* SETEX guest_pin:{pin} with minutes * 60; Redis rejects a ttl <= 0.
handle_guest_pin(args, user_id, t, G, env) ==
    LET minutes == get_int_arg_or(args, guest_default_minutes) IN
    IF env.setex_throws \/ minutes * 60 <= 0
    THEN GwResult(G, "local", <<"pin_failed">>, "none")
    ELSE GwResult([G EXCEPT !.pins = Put(@, env.pin, [owner |-> user_id,
                                                      exp |-> t + Minutes(minutes)])],
                  "local", <<"pin_created">>, "none")

\* TelegramGateway::forward_command followed by audit_command_used.
forward_command(cmd, user_id, chat_id, role, t, G, env) ==
    IF cmd.command \in {"add_wallet", "remove_wallet"} /\ cmd.args # << >>
       /\ ~is_valid_address(cmd.args[1])
    THEN [GwResult(G, "not_forwarded", << >>, "cmd_used") EXCEPT !.role = role]
    ELSE LET corr_id == G.nextc + 1
             G1 == [G EXCEPT !.nextc = corr_id,
                             !.pending = Put(@, corr_id, [chat_id |-> chat_id, timestamp |-> t])]
         IN [GwResult(G1, "forwarded", << >>, "cmd_used") EXCEPT
                !.role = role,
                !.request = [corr_id |-> corr_id, cmd |-> cmd.command, chat_id |-> chat_id,
                             published |-> ~env.xadd_throws]]

\* TelegramGateway::handle_command.
handle_command(cmd, user_id, chat_id, t, G, env) ==
    IF cmd.command = "start" /\ Len(cmd.args) = 1
    THEN handle_guest_login(cmd.args[1], user_id, t, G, env)
    ELSE LET user_role == get_user_role(user_id, G.sessions, t) IN
         IF user_role = "UNKNOWN"
         THEN [GwResult(G, "denied", <<"access_denied">>, "auth_denied") EXCEPT
                  !.role = user_role]
         ELSE IF ~is_command_allowed(cmd.command, user_role)
         THEN [GwResult(G, "denied", <<"no_permission">>, "auth_denied") EXCEPT
                  !.role = user_role]
         ELSE IF cmd.command = "start"
         THEN [GwResult(G, "local", <<"welcome">>, "none") EXCEPT !.role = user_role]
         ELSE IF cmd.command = "help"
         THEN [GwResult(G, "local", <<"help">>, "none") EXCEPT !.role = user_role]
         ELSE IF cmd.command = "guest" /\ user_role = "OWNER"
         THEN [handle_guest_pin(cmd.args, user_id, t, G, env) EXCEPT !.role = user_role]
         ELSE forward_command(cmd, user_id, chat_id, user_role, t, G, env)

\* TelegramGateway::handle_telegram_update_struct.
handle_telegram_update_struct(text, user_id, chat_id, t, G, env) ==
    IF text.words = << >> THEN GwResult(G, "empty", << >>, "none")
    ELSE LET rl == check_user_rate_limit(G.limits, user_id, t)
             G1 == [G EXCEPT !.limits = rl.limits]
         IN IF ~rl.pass THEN GwResult(G1, "rate_limited", <<"rate_limit_exceeded">>, "none")
            ELSE IF ~parse(text).ok
            THEN GwResult(G1, "invalid", <<"invalid_format">>, "none")
            ELSE handle_command(parse(text), user_id, chat_id, t, G1, env)

MaxUpdates == 3
MaxRequests == 2
MaxGwTime == 12
MaxAuthTime == 6
MaxRlMessages == 4
Pins == {"111111"}

Text(words) == [slash |-> TRUE, words |-> words]

GwTexts ==
    {Text(<<"balance">>), Text(<<"signals">>), Text(<<"help">>), Text(<<"guest", "1">>)}
    \cup {Text(<<"start", pin>>) : pin \in Pins}

\* The outcomes of the Redis calls of one update: all succeed, or one of them throws.
EnvOk ==
    [get_throws |-> FALSE, del_throws |-> FALSE, setex_throws |-> FALSE, xadd_throws |-> FALSE,
     audit_throws |-> FALSE]

RedisCalls == {"get_throws", "del_throws", "setex_throws", "xadd_throws", "audit_throws"}

GwEnvs ==
    {[pin |-> pin] @@ e : pin \in Pins,
                          e \in {EnvOk} \cup {[EnvOk EXCEPT ![c] = TRUE] : c \in RedisCalls}}

PortfolioCmds == {"balance", "holdings", "add_wallet", "remove_wallet"}

\* The times, among those in q and t, less than a minute before t.
LastMinute(q, t) == SelectSeq(q, LAMBDA x : t - x < Minutes(1))

\* One Telegram update goes through handle_telegram_update_struct.
GwHandle(user_id, text, env) ==
    LET G == [limits |-> user_limits_, sessions |-> guest_sessions_, pins |-> guest_pins,
              pending |-> pending_commands_, nextc |-> next_corr]
        r == handle_telegram_update_struct(text, user_id, user_id, gw_now, G, env)
        cmd == parse(text)
        login == cmd.ok /\ cmd.command = "start" /\ Len(cmd.args) = 1
        before == IF user_id \in DOMAIN passed THEN passed[user_id] ELSE << >>
    IN
    /\ user_limits_' = r.limits
    /\ guest_sessions_' = r.sessions
    /\ guest_pins' = r.pins
    /\ pending_commands_' = r.pending
    /\ next_corr' = r.nextc
    /\ req_stream' = IF r.request.corr_id # 0 /\ r.request.published
                     THEN Append(req_stream, [corr_id |-> r.request.corr_id,
                                              cmd |-> r.request.cmd])
                     ELSE req_stream
    /\ req_info' = IF r.request.corr_id # 0
                   THEN Put(req_info, r.request.corr_id,
                            [chat_id |-> r.request.chat_id, cmd |-> r.request.cmd,
                             published |-> r.request.published, received_by |-> {}])
                   ELSE req_info
    /\ gw_log' = [n |-> gw_log.n + 1,
                  redeemed |-> IF r.outcome = "login_ok" THEN gw_log.redeemed \cup {cmd.args[1]}
                               ELSE IF r.sent = <<"pin_created">> THEN gw_log.redeemed \ {env.pin}
                               ELSE gw_log.redeemed,
                  user |-> user_id, command |-> IF cmd.ok THEN cmd.command ELSE "",
                  login |-> login,
                  reused |-> login /\ cmd.args[1] \in gw_log.redeemed,
                  role |-> get_user_role(user_id, guest_sessions_, gw_now),
                  outcome |-> r.outcome, sent |-> r.sent, audit |-> r.audit,
                  audit_published |-> r.audit # "none" /\ ~env.audit_throws,
                  at |-> gw_now]
    /\ passed' = IF r.outcome \in {"empty", "rate_limited"}
                 THEN Put(passed, user_id, LastMinute(before, gw_now))
                 ELSE Put(passed, user_id, Append(LastMinute(before, gw_now), gw_now))
    /\ UNCHANGED <<gw_now, rep_stream, cursors, cmd_channel, reply_channel, reply_log>>
    /\ OutsideGateway

InitGateway ==
    /\ config_ = DefaultConfig
    /\ ScoringIdle
    /\ ThrottleIdle
    /\ NotifierIdle
    /\ BusIdle
    /\ GatewayIdle
    /\ AnalyticsIdle
    /\ RaceIdle /\ IngestorIdle

\* The owner sends commands that are forwarded.
RelayUpdate ==
    /\ gw_log.n < MaxRequests
    /\ \E text \in {Text(<<"balance">>), Text(<<"signals">>)}, env \in GwEnvs :
          GwHandle(owner_telegram_id, text, env)

\* The notifier's command consumer reads the next request and its service
\* thread answers it: the gateway's command names carry no '/', so the reply
\* is "Unknown command: ..." with the request's corr_id; XADD of the reply may fail.
NotifierConsume ==
    /\ cursors.notifier < Len(req_stream)
    /\ \E xadd_throws \in BOOLEAN :
          LET req == req_stream[cursors.notifier + 1] IN
          /\ cursors' = [cursors EXCEPT !.notifier = @ + 1]
          /\ req_info' = [req_info EXCEPT ![req.corr_id].received_by = @ \cup {"notifier"}]
          /\ rep_stream' = IF xadd_throws THEN rep_stream
                           ELSE Append(rep_stream, [corr_id |-> req.corr_id, from |-> "notifier"])
    /\ UNCHANGED <<gw_now, pending_commands_, guest_sessions_, user_limits_, guest_pins,
                   req_stream, cmd_channel, reply_channel, next_corr, gw_log, reply_log, passed>>
    /\ OutsideGateway

\* The analytics command subscriber: the callback runs for cmd "signals" only,
\* and AnalyticsService::handle_command_request answers "get_signals" only.
AnalyticsConsume ==
    /\ cursors.analytics < Len(req_stream)
    /\ LET req == req_stream[cursors.analytics + 1] IN
       /\ cursors' = [cursors EXCEPT !.analytics = @ + 1]
       /\ req_info' = IF req.cmd = "signals"
                      THEN [req_info EXCEPT ![req.corr_id].received_by = @ \cup {"analytics"}]
                      ELSE req_info
       /\ rep_stream' = IF req.cmd = "get_signals"
                        THEN Append(rep_stream, [corr_id |-> req.corr_id, from |-> "analytics"])
                        ELSE rep_stream
    /\ UNCHANGED <<gw_now, pending_commands_, guest_sessions_, user_limits_, guest_pins,
                   req_stream, cmd_channel, reply_channel, next_corr, gw_log, reply_log, passed>>
    /\ OutsideGateway

\* Some client PUBLISHes a command on the pub/sub channel portfolio subscribes to.
ChannelPublish ==
    /\ cmd_channel = 0 /\ reply_channel = 0
    /\ cmd_channel' = 1
    /\ UNCHANGED <<gw_now, pending_commands_, guest_sessions_, user_limits_, guest_pins,
                   req_stream, rep_stream, cursors, reply_channel, next_corr, gw_log, req_info,
                   reply_log, passed>>
    /\ OutsideGateway

\* PortfolioService::on_command_request for a message of its channel; the
\* reply is PUBLISHed on the pub/sub reply channel.
PortfolioReceive ==
    /\ cmd_channel > 0
    /\ cmd_channel' = cmd_channel - 1
    /\ reply_channel' = reply_channel + 1
    /\ UNCHANGED <<gw_now, pending_commands_, guest_sessions_, user_limits_, guest_pins,
                   req_stream, rep_stream, cursors, next_corr, gw_log, req_info, reply_log, passed>>
    /\ OutsideGateway

\* The gateway's reply consumer hands the next reply to handle_command_reply.
GwReplyConsume ==
    /\ cursors.tg_gateway < Len(rep_stream)
    /\ LET reply == rep_stream[cursors.tg_gateway + 1]
           known == reply.corr_id \in DOMAIN pending_commands_
           chat_id_to_reply == IF known THEN pending_commands_[reply.corr_id].chat_id ELSE 0
       IN
       /\ cursors' = [cursors EXCEPT !.tg_gateway = @ + 1]
       /\ pending_commands_' = Restrict(pending_commands_,
                                        DOMAIN pending_commands_ \ {reply.corr_id})
       /\ reply_log' = [reply_log EXCEPT
              !.replied = @ \cup {reply.corr_id},
              !.relayed = IF chat_id_to_reply # 0
                          THEN @ \cup {[corr_id |-> reply.corr_id, from |-> reply.from,
                                        chat_id |-> chat_id_to_reply]}
                          ELSE @,
              !.last = [corr_id |-> reply.corr_id, known |-> known,
                        sent |-> chat_id_to_reply # 0]]
    /\ UNCHANGED <<gw_now, guest_sessions_, user_limits_, guest_pins, req_stream, rep_stream,
                   cmd_channel, reply_channel, next_corr, gw_log, req_info, passed>>
    /\ OutsideGateway

\* One round of cleanup_loop.
GwCleanup ==
    /\ guest_sessions_' = cleanup_expired_sessions(guest_sessions_, gw_now)
    /\ user_limits_' = cleanup_old_entries(user_limits_, gw_now)
    /\ pending_commands_' = erase_stale_pending(pending_commands_, gw_now)
    /\ reply_log' = [reply_log EXCEPT
           !.swept = @ \cup {c \in DOMAIN pending_commands_ :
                                gw_now - pending_commands_[c].timestamp > Minutes(PendingMaxAgeMin)}]
    /\ UNCHANGED <<gw_now, guest_pins, req_stream, rep_stream, cursors, cmd_channel,
                   reply_channel, next_corr, gw_log, req_info, passed>>
    /\ OutsideGateway

\* d ticks pass; Redis drops the PINs whose TTL has run out.
GwAdvance(d, max) ==
    /\ gw_now + d <= max
    /\ gw_now' = gw_now + d
    /\ guest_pins' = Restrict(guest_pins, {p \in DOMAIN guest_pins : gw_now + d < guest_pins[p].exp})
    /\ passed' = [u \in DOMAIN passed |-> LastMinute(passed[u], gw_now + d)]
    /\ UNCHANGED <<pending_commands_, guest_sessions_, user_limits_, req_stream, rep_stream,
                   cursors, cmd_channel, reply_channel, next_corr, gw_log, req_info, reply_log>>
    /\ OutsideGateway

RelayMinute == GwAdvance(GwTicksPerMin, MaxGwTime)

NextRelay ==
    \/ RelayUpdate \/ NotifierConsume \/ AnalyticsConsume \/ ChannelPublish \/ PortfolioReceive
    \/ GwReplyConsume \/ GwCleanup \/ RelayMinute

SpecRelay == InitGateway /\ [][NextRelay]_vars

\* Roles, PINs and sessions: the owner and another user send any of GwTexts.
AuthUpdate ==
    /\ gw_log.n < MaxUpdates
    /\ \E user_id \in GwUsers, text \in GwTexts, env \in GwEnvs : GwHandle(user_id, text, env)

AuthMinute == GwAdvance(GwTicksPerMin, MaxAuthTime)

NextAuth == AuthUpdate \/ GwCleanup \/ AuthMinute

SpecAuth == InitGateway /\ [][NextAuth]_vars

\* The rate limiter alone: one user sends /help, time passes in half minutes.
RlMessage ==
    /\ gw_log.n < MaxRlMessages
    /\ \E env \in GwEnvs : GwHandle(owner_telegram_id, Text(<<"help">>), env)

RlTick == GwAdvance(1, MaxAuthTime)

NextRateLimit == RlMessage \/ RlTick \/ GwCleanup

SpecRateLimit == InitGateway /\ [][NextRateLimit]_vars

\* ---- analytics: the worker queue and AnalyticsService::stop ----

MaxArrivals == 3

InitWorker ==
    /\ config_ = DefaultConfig
    /\ ScoringIdle
    /\ ThrottleIdle
    /\ NotifierIdle
    /\ BusIdle
    /\ GatewayIdle
    /\ AnalyticsIdle
    /\ RaceIdle /\ IngestorIdle

\* AnalyticsService::run: the subscriber threads and the service thread start.
AnRun ==
    /\ ~an_running_ /\ stop_pc = "idle" /\ worker_pc = "none"
    /\ an_running_' = TRUE
    /\ sub_running_' = TRUE
    /\ market_pc' = "loop"
    /\ worker_pc' = "top"
    /\ UNCHANGED <<update_queue_, stop_pc, an_arrived, an_acked, an_processed>>
    /\ OutsideWorker

\* The market subscriber reads one entry and its callback pushes the update:
\* update_queue_.push has no capacity check.
MarketRead ==
    /\ market_pc = "loop" /\ sub_running_
    /\ an_arrived < MaxArrivals
    /\ an_arrived' = an_arrived + 1
    /\ update_queue_' = Append(update_queue_, an_arrived + 1)
    /\ market_pc' = "ack"
    /\ UNCHANGED <<an_running_, sub_running_, worker_pc, stop_pc, an_acked, an_processed>>
    /\ OutsideWorker

\* XACK of the entry just handed to the callback (an exception is caught and logged).
MarketAck ==
    /\ market_pc = "ack"
    /\ \E xack_throws \in BOOLEAN :
          an_acked' = IF xack_throws THEN an_acked ELSE an_acked \cup {an_arrived}
    /\ market_pc' = "loop"
    /\ UNCHANGED <<update_queue_, an_running_, sub_running_, worker_pc, stop_pc, an_arrived,
                   an_processed>>
    /\ OutsideWorker

\* while (running_) of the subscriber thread turns false.
MarketExit ==
    /\ market_pc = "loop" /\ ~sub_running_
    /\ market_pc' = "stopped"
    /\ UNCHANGED <<update_queue_, an_running_, sub_running_, worker_pc, stop_pc, an_arrived,
                   an_acked, an_processed>>
    /\ OutsideWorker

\* service_thread_func: the test of while (running_).
WorkerCheck ==
    /\ worker_pc = "top"
    /\ worker_pc' = IF an_running_ THEN "body" ELSE "exited"
    /\ UNCHANGED <<update_queue_, an_running_, sub_running_, stop_pc, market_pc, an_arrived,
                   an_acked, an_processed>>
    /\ OutsideWorker

\* service_thread_func: the loop body.  With an empty queue the wait returns
\* and the thread breaks when running_ is false, else starts over; with an
\* update in the queue it pops it and calls process_market_update.
\* The loop body taking the newest update instead of the front of the queue.
WorkerBodyTakesBack ==
    /\ worker_pc = "body"
    /\ IF update_queue_ = << >>
       THEN /\ worker_pc' = IF ~an_running_ THEN "exited" ELSE "top"
            /\ UNCHANGED <<update_queue_, an_processed>>
       ELSE /\ update_queue_' = SubSeq(update_queue_, 1, Len(update_queue_) - 1)
            /\ an_processed' = an_processed \cup {update_queue_[Len(update_queue_)]}
            /\ worker_pc' = "top"
    /\ UNCHANGED <<an_running_, sub_running_, stop_pc, market_pc, an_arrived, an_acked>>
    /\ OutsideWorker

WorkerBody ==
    /\ worker_pc = "body"
    /\ IF update_queue_ = << >>
       THEN /\ worker_pc' = IF ~an_running_ THEN "exited" ELSE "top"
            /\ UNCHANGED <<update_queue_, an_processed>>
       ELSE /\ update_queue_' = Tail(update_queue_)
            /\ an_processed' = an_processed \cup {Head(update_queue_)}
            /\ worker_pc' = "top"
    /\ UNCHANGED <<an_running_, sub_running_, stop_pc, market_pc, an_arrived, an_acked>>
    /\ OutsideWorker

\* AnalyticsService::stop, statement by statement.
StopBegin ==
    /\ stop_pc = "idle" /\ an_running_
    /\ an_running_' = FALSE
    /\ stop_pc' = "stop_subscribers"
    /\ UNCHANGED <<update_queue_, sub_running_, worker_pc, market_pc, an_arrived, an_acked,
                   an_processed>>
    /\ OutsideWorker

StopSubscribers ==
    /\ stop_pc = "stop_subscribers"
    /\ sub_running_' = FALSE
    /\ stop_pc' = "join_subscribers"
    /\ UNCHANGED <<update_queue_, an_running_, worker_pc, market_pc, an_arrived, an_acked,
                   an_processed>>
    /\ OutsideWorker

StopJoinSubscribers ==
    /\ stop_pc = "join_subscribers" /\ market_pc = "stopped"
    /\ stop_pc' = "join_worker"
    /\ UNCHANGED <<update_queue_, an_running_, sub_running_, worker_pc, market_pc, an_arrived,
                   an_acked, an_processed>>
    /\ OutsideWorker

StopJoinWorker ==
    /\ stop_pc = "join_worker" /\ worker_pc = "exited"
    /\ stop_pc' = "returned"
    /\ UNCHANGED <<update_queue_, an_running_, sub_running_, worker_pc, market_pc, an_arrived,
                   an_acked, an_processed>>
    /\ OutsideWorker

NextWorker ==
    \/ AnRun \/ MarketRead \/ MarketAck \/ MarketExit \/ WorkerCheck \/ WorkerBody
    \/ StopBegin \/ StopSubscribers \/ StopJoinSubscribers \/ StopJoinWorker

SpecWorker == InitWorker /\ [][NextWorker]_vars

\* ---- analytics: RedisBus::Impl::connect and ensure_connection ----

MaxBoTime == 32

\* RedisBus::Impl::ensure_connection.  is_connected pings; when that fails and
\* the backoff has elapsed, connect pings again (the endpoint may have come
\* back) and catches its own exceptions, so the catch block that counts
\* retries is not entered.
EnsureConnection ==
    /\ IF ping_ok
       THEN /\ bo_last' = [called |-> TRUE, result |-> TRUE, attempted |-> FALSE,
                           waited_ms |-> 0, required_ms |-> 0]
            /\ UNCHANGED <<ping_ok, last_connection_attempt_, backoff_ms_, retry_count_>>
       ELSE IF (bo_now - last_connection_attempt_) * 1000 < backoff_ms_
       THEN /\ bo_last' = [called |-> TRUE, result |-> FALSE, attempted |-> FALSE,
                           waited_ms |-> 0, required_ms |-> 0]
            /\ UNCHANGED <<ping_ok, last_connection_attempt_, backoff_ms_, retry_count_>>
       ELSE \E connected \in BOOLEAN :
            /\ ping_ok' = connected
            /\ last_connection_attempt_' = bo_now
            /\ backoff_ms_' = IF connected THEN BackoffBaseMs
                              ELSE Min(backoff_ms_ * 2, BackoffCapMs)
            /\ retry_count_' = IF connected THEN 0 ELSE retry_count_
            /\ bo_last' = [called |-> TRUE, result |-> connected, attempted |-> TRUE,
                           waited_ms |-> (bo_now - last_connection_attempt_) * 1000,
                           required_ms |-> backoff_ms_]
    /\ UNCHANGED bo_now
    /\ OutsideBackoff

\* The endpoint goes away or comes back.
PingChange ==
    /\ ping_ok' = ~ping_ok
    /\ UNCHANGED <<bo_now, last_connection_attempt_, backoff_ms_, retry_count_, bo_last>>
    /\ OutsideBackoff

BoTick ==
    /\ bo_now < MaxBoTime
    /\ bo_now' = bo_now + 1
    /\ UNCHANGED <<ping_ok, last_connection_attempt_, backoff_ms_, retry_count_, bo_last>>
    /\ OutsideBackoff

NextBackoff == EnsureConnection \/ PingChange \/ BoTick

SpecBackoff == InitWorker /\ [][NextBackoff]_vars

(***************************************************************************)
(* Notifier: the global throttle fed with actionable alerts that differ in  *)
(* mint, so that the deduplicator lets both through.                        *)
(***************************************************************************)
ActionableAlerts ==
    { [mint |-> "A", severity |-> "actionable", lines |-> LinesAbC],
      [mint |-> "B", severity |-> "actionable", lines |-> LinesAbC],
      [mint |-> "B", severity |-> "heads_up", lines |-> LinesABc] }

\* The alert consumer's callback (NotifierService::run).
DeliverThrottled ==
    /\ running_ /\ svc_pc # "terminated"
    /\ NumAlertsDelivered < MaxAlerts
    /\ \E a \in ActionableAlerts :
          alert_queue_' = Append(alert_queue_, [alert |-> a, mute_ref |-> LatestMute])
    /\ UNCHANGED <<clock, kv, command_queue_, running_, svc_pc, relock, outbound, audit_log,
                   handled_cmds, decided, last>>
    /\ OutsideNotifier

NextGlobalThrottle ==
    \/ DeliverThrottled
    \/ ServiceAlert \/ ServiceCommand
    \/ AdvanceTime

SpecGlobalThrottle == InitNotifier /\ [][NextGlobalThrottle]_vars

(***************************************************************************)
(* RegimeDetector (regime.cpp).  Prices and percentages are doubles; the   *)
(* model feeds whole numbers, for which the comparisons of the averages    *)
(* are the integer comparisons below.  Time advances in steps of           *)
(* RegimeTick, and duration_cast<hours> truncates.                         *)
(***************************************************************************)
RegimeTick == [hours |-> 12, minutes |-> 15]
MaxRegimeTime == 4
MaxRegimePoints == 4

\* The thresholds update_regime reads from the configuration.
RegimeSettings == [risk_on_sol_change_threshold |-> 2, risk_on_momentum_threshold |-> 1]

SolInputs == [sol_price : {100, 120}, sol_24h_change_pct : {-5, 5}]

elapsed_hours(t, ts) == ((t - ts) * (RegimeTick.hours * 60 + RegimeTick.minutes)) \div 60

RECURSIVE SumOver(_, _)
SumOver(q, field) == IF q = << >> THEN 0 ELSE Head(q)[field] + SumOver(Tail(q), field)

\* RegimeDetector::update_regime at time t: the data points and risk_on_
\* afterwards.  avg_change > threshold is sum > threshold * n, and
\* (current / avg_price - 1) * 100 > threshold is
\* current * (n - 1) * 100 > (100 + threshold) * sum of the previous prices.
update_regime(points, sol_price, sol_24h_change_pct, t, cfg) ==
    LET kept == SelectSeq(Append(points, [sol_price |-> sol_price,
                                          sol_24h_change_pct |-> sol_24h_change_pct,
                                          timestamp |-> t]),
                          LAMBDA p : ~(elapsed_hours(t, p.timestamp) > 24))
        n == Len(kept)
    IN IF n < 3 THEN [data_points |-> kept, risk_on |-> FALSE]
       ELSE [data_points |-> kept,
             risk_on |->
                /\ SumOver(kept, "sol_24h_change_pct") > cfg.risk_on_sol_change_threshold * n
                /\ kept[n].sol_price * (n - 1) * 100 >
                      (100 + cfg.risk_on_momentum_threshold)
                          * SumOver(SubSeq(kept, 1, n - 1), "sol_price")]

\* One update_regime call, as made by the market-update callback for a SOL update.
UpdateRegime ==
    /\ Len(data_points_) < MaxRegimePoints
    /\ \E u \in SolInputs :
          LET r == update_regime(data_points_, u.sol_price, u.sol_24h_change_pct, rg_now,
                                 RegimeSettings) IN
          /\ data_points_' = r.data_points
          /\ risk_on_' = r.risk_on
    /\ UNCHANGED rg_now /\ OutsideRegime

RegimeAdvance ==
    /\ rg_now < MaxRegimeTime
    /\ rg_now' = rg_now + 1
    /\ UNCHANGED <<data_points_, risk_on_>> /\ OutsideRegime

NextRegime == UpdateRegime \/ RegimeAdvance

SpecRegime == InitWorker /\ [][NextRegime]_vars

(***************************************************************************)
(* ApiSignalsHandler caches (api_signals.cpp).  A cache entry is kept as   *)
(* the timestamp it carries; times are in the ticks of `now`.  The static  *)
(* counter of cache_market_update is kept modulo CleanupEvery.             *)
(***************************************************************************)
CleanupEvery == 100
CacheSettings == [cache_ttl_minutes |-> 1]
CacheMints == {"A"}

\* ApiSignalsHandler::cleanup_cache on one of the two maps.
cleanup_cache(cache, t, cfg) ==
    Restrict(cache, {k \in DOMAIN cache :
                        ~(elapsed_minutes(t, cache[k].timestamp) > cfg.cache_ttl_minutes)})

\* ApiSignalsHandler::cache_market_update for an update stamped ts, at time t.
cache_market_update(market, sigs, counter, mint, ts, t, cfg) ==
    LET stored == Put(market, mint, [timestamp |-> ts])
        c == (counter + 1) % CleanupEvery
    IN IF c = 0
       THEN [market |-> cleanup_cache(stored, t, cfg), signals |-> cleanup_cache(sigs, t, cfg),
             counter |-> c]
       ELSE [market |-> stored, signals |-> sigs, counter |-> c]

\* ApiSignalsHandler::get_token_signals at time t: whether a result is returned,
\* whether it is the cached one, the timestamp it carries and the cache afterwards.
get_token_signals(market, sigs, mint, t) ==
    IF mint \in DOMAIN sigs
    THEN [found |-> TRUE, from_cache |-> TRUE, timestamp |-> sigs[mint].timestamp, signals |-> sigs]
    ELSE IF mint \notin DOMAIN market
    THEN [found |-> FALSE, from_cache |-> FALSE, timestamp |-> t, signals |-> sigs]
    ELSE [found |-> TRUE, from_cache |-> FALSE, timestamp |-> t,
          signals |-> Put(sigs, mint, [timestamp |-> t])]

\* The worker caches a fresh market update of a token.
CacheMarketUpdate ==
    /\ \E mint \in CacheMints :
          LET r == cache_market_update(market_updates_cache_, signals_cache_, cleanup_counter,
                                       mint, now, now, CacheSettings) IN
          /\ market_updates_cache_' = r.market
          /\ signals_cache_' = r.signals
          /\ cleanup_counter' = r.counter
    /\ UNCHANGED <<api_last, regimeVars, pm_last>>
    /\ UNCHANGED <<config_, scoringVars, throttleVars, notifierVars, busVars, gatewayVars,
                   workerVars, backoffVars, lifeVars, raceVars, ingestorVars>>

\* A signals request looks a token up.
GetTokenSignals ==
    /\ \E mint \in CacheMints :
          LET r == get_token_signals(market_updates_cache_, signals_cache_, mint, now) IN
          /\ signals_cache_' = r.signals
          /\ api_last' = [called |-> TRUE, mint |-> mint, found |-> r.found,
                          from_cache |-> r.from_cache, age |-> now - r.timestamp]
    /\ UNCHANGED <<market_updates_cache_, cleanup_counter, regimeVars, pm_last>>
    /\ UNCHANGED <<config_, scoringVars, throttleVars, notifierVars, busVars, gatewayVars,
                   workerVars, backoffVars, lifeVars, raceVars, ingestorVars>>

NextCache == CacheMarketUpdate \/ GetTokenSignals \/ Tick

SpecCache == InitWorker /\ [][NextCache]_vars

(***************************************************************************)
(* TelegramGateway: initialize, run and cleanup_loop (tg_gateway main.cpp). *)
(* The constructor has already started cleanup_loop on cleanup_thread_.     *)
(***************************************************************************)
MaxLifeTime == 8

\* TelegramGateway::initialize: the Redis connection succeeds or fails.
GwInitialize ==
    /\ gw_main = "constructed"
    /\ \E connected \in BOOLEAN :
          gw_main' = IF connected THEN "initialized" ELSE "init_failed"
    /\ UNCHANGED <<gw_running_, cleanup_thread_>>
    /\ UNCHANGED gatewayVars /\ OutsideLife

\* TelegramGateway::run, first statement: running_ = true.
GwRunFlag ==
    /\ gw_main = "initialized"
    /\ gw_running_' = TRUE
    /\ gw_main' = "run_flag"
    /\ UNCHANGED cleanup_thread_
    /\ UNCHANGED gatewayVars /\ OutsideLife

\* TelegramGateway::run, second statement: cleanup_thread_ = std::thread(...).
\* Move-assigning to a std::thread that is joinable calls std::terminate; a
\* thread that has finished but was not joined is still joinable.
GwRunCleanup ==
    /\ gw_main = "run_flag"
    /\ IF cleanup_thread_.joinable
       THEN /\ gw_main' = "terminated"
            /\ UNCHANGED cleanup_thread_
       ELSE /\ gw_main' = "serving"
            /\ cleanup_thread_' = [joinable |-> TRUE, pc |-> "check", wake |-> 0]
    /\ UNCHANGED gw_running_
    /\ UNCHANGED gatewayVars /\ OutsideLife

\* One step of cleanup_loop: the test of running_, or, the minute's sleep
\* being over, one sweep.
CleanupLoopStep ==
    /\ gw_main # "terminated"
    /\ IF cleanup_thread_.pc = "check"
       THEN /\ cleanup_thread_' =
                  [cleanup_thread_ EXCEPT !.pc = IF gw_running_ THEN "sleeping" ELSE "exited",
                                          !.wake = gw_now + GwTicksPerMin]
            /\ UNCHANGED gatewayVars
       ELSE /\ cleanup_thread_.pc = "sleeping"
            /\ gw_now >= cleanup_thread_.wake
            /\ cleanup_thread_' = [cleanup_thread_ EXCEPT !.pc = "check"]
            /\ guest_sessions_' = cleanup_expired_sessions(guest_sessions_, gw_now)
            /\ user_limits_' = cleanup_old_entries(user_limits_, gw_now)
            /\ pending_commands_' = erase_stale_pending(pending_commands_, gw_now)
            /\ UNCHANGED <<gw_now, guest_pins, req_stream, rep_stream, cursors, cmd_channel,
                           reply_channel, next_corr, gw_log, req_info, reply_log, passed>>
    /\ UNCHANGED <<gw_main, gw_running_>>
    /\ OutsideLife

LifeTick == GwAdvance(1, MaxLifeTime)

NextLife == GwInitialize \/ GwRunFlag \/ GwRunCleanup \/ CleanupLoopStep \/ LifeTick

SpecLife == InitGateway /\ [][NextLife]_vars

(***************************************************************************)
(* AnalyticsService: the market-update callback of run() and               *)
(* process_market_update as the worker calls it (analytics_service.cpp),   *)
(* with EntryExitChecker::check_entry_conditions (entry_exit.cpp).         *)
(***************************************************************************)
young_token_hours == 72
min_c_young_risky == 80
sol_mint == "SOL"

MaxPipelineUpdates == 3
MaxQueued == 1

\* The entry settings: the defaults, and a lower bar for young and risky tokens.
EntrySettings ==
    { [young_token_hours |-> young_token_hours, min_c_young_risky |-> min_c_young_risky],
      [young_token_hours |-> young_token_hours, min_c_young_risky |-> 60] }

\* The signals calculate_signals produces for the token updates fed in.
PipelineSignals ==
    [s1_liquidity : {100}, s2_volume : {100}, s3_momentum_1h : {100},
     s4_momentum_24h : {50}, s5_volatility : {100}, s6_price_discovery : {80},
     s7_rug_risk : {49, 90}, s8_tradability : {100},
     s9_relative_strength : {70}, s10_route_quality : {100},
     n1_hygiene : {100}, data_quality : {52, 100}]

\* Market updates: market_ok stands for the checks of check_entry_conditions on
\* the update's own fields (age, liquidity, volume, spread, impact, route, bars),
\* edge_ok for check_net_edge, change_pct for the change the callback derives
\* from the 15m bar.
TokenUpdates ==
    {u \in [mint_base : {"A"}, price_usd : {100}, change_pct : {5}, age_hours : {24, 100},
            market_ok : BOOLEAN, edge_ok : BOOLEAN, sig : PipelineSignals] :
        /\ u.market_ok \/ u.edge_ok
        /\ u.sig.s7_rug_risk = 90 => u.sig.data_quality = 100}

SolUpdates ==
    {u \in [mint_base : {sol_mint}, price_usd : {100, 120}, change_pct : {5}, age_hours : {24},
            market_ok : {TRUE}, edge_ok : {TRUE}, sig : PipelineSignals] :
        u.sig.s7_rug_risk = 90 /\ u.sig.data_quality = 100}

MarketUpdates == TokenUpdates \cup SolUpdates

\* check_entry_conditions without the rule for young and risky tokens.
check_entry_conditions_no_young_rule(update, s, cfg) ==
    IF ~update.market_ok THEN FALSE
    ELSE IF s.data_quality < cfg.min_dq_for_actionable THEN FALSE
    ELSE TRUE

\* EntryExitChecker::check_entry_conditions.
check_entry_conditions(update, s, cfg) ==
    IF ~update.market_ok THEN FALSE
    ELSE IF s.data_quality < cfg.min_dq_for_actionable THEN FALSE
    ELSE IF update.age_hours < cfg.young_token_hours /\ s.s7_rug_risk < 50
              /\ s.confidence_score < cfg.min_c_young_risky
    THEN FALSE
    ELSE TRUE

\* What process_market_update leaves behind when it does nothing.
Untouched(st) ==
    [market |-> st.market, sigcache |-> st.sigcache, counter |-> st.counter,
     signals |-> st.signals, history |-> st.history, scored |-> FALSE, published |-> FALSE]

\* process_market_update that scores the SOL updates like any other.
process_market_update_scores_sol(update, st, on, t, env, cfg) ==
    LET c == cache_market_update(st.market, st.sigcache, st.counter, update.mint_base, t, t,
                                 CacheSettings)
        cached == [Untouched(st) EXCEPT !.market = c.market, !.sigcache = c.signals,
                                        !.counter = c.counter]
    IN IF env = "store_throws" THEN cached
       ELSE LET conf == apply_risk_adjustment(calculate_confidence(update.sig, cfg), on, cfg)
                s1 == Merge([confidence_score |-> conf], Merge(update.sig, NoSignals))
                entry == check_entry_conditions(update, s1, cfg)
                b == determine_band(conf, entry, update.edge_ok, cfg)
                g == generate_alerts(update.mint_base, b, st.history, t, t,
                                     env # "publish_fails", cfg)
            IN [cached EXCEPT
                   !.signals = [s1 EXCEPT !.entry_confirmed = entry,
                                          !.net_edge_ok = update.edge_ok, !.band = b],
                   !.history = g.history, !.scored = TRUE, !.published = g.published]

\* AnalyticsService::process_market_update at time t.  st holds the caches, the
\* last SignalResult and the throttle history; on is is_risk_on(); env says
\* whether the metadata store throws and whether publish_alert succeeds.
process_market_update(update, st, on, t, env, cfg) ==
    IF update.mint_base = sol_mint THEN Untouched(st)
    ELSE
    LET c == cache_market_update(st.market, st.sigcache, st.counter, update.mint_base, t, t,
                                 CacheSettings)
        cached == [Untouched(st) EXCEPT !.market = c.market, !.sigcache = c.signals,
                                        !.counter = c.counter]
    IN IF env = "store_throws" THEN cached
       ELSE LET conf == apply_risk_adjustment(calculate_confidence(update.sig, cfg), on, cfg)
                s1 == Merge([confidence_score |-> conf], Merge(update.sig, NoSignals))
                entry == check_entry_conditions(update, s1, cfg)
                b == determine_band(conf, entry, update.edge_ok, cfg)
                g == generate_alerts(update.mint_base, b, st.history, t, t,
                                     env # "publish_fails", cfg)
            IN [cached EXCEPT
                   !.signals = [s1 EXCEPT !.entry_confirmed = entry,
                                          !.net_edge_ok = update.edge_ok, !.band = b],
                   !.history = g.history, !.scored = TRUE, !.published = g.published]

\* The data points after the SOL updates 100, 100, 120 (change 5 each) at time 0.
RisingPoints ==
    [i \in 1..3 |-> [sol_price |-> IF i = 3 THEN 120 ELSE 100, sol_24h_change_pct |-> 5,
                     timestamp |-> 0]]

\* The service after run(): the subscriber and the worker thread are running;
\* the regime detector is fresh, or has seen three SOL updates with a rising price.
InitPipeline ==
    /\ config_ \in {Merge(DefaultConfig, e) : e \in EntrySettings}
    /\ ScoringIdle /\ ThrottleIdle /\ NotifierIdle /\ BusIdle /\ GatewayIdle
    /\ BackoffIdle
    /\ RaceIdle /\ IngestorIdle
    /\ rg_now = 0
    /\ \/ data_points_ = << >> /\ risk_on_ = FALSE
       \/ data_points_ = RisingPoints /\ risk_on_ = TRUE
    /\ market_updates_cache_ = << >> /\ signals_cache_ = << >> /\ cleanup_counter = 0
    /\ api_last = [called |-> FALSE]
    /\ pm_last = [n |-> 0]
    /\ update_queue_ = << >> /\ an_running_ = TRUE /\ sub_running_ = TRUE
    /\ worker_pc = "top" /\ stop_pc = "idle" /\ market_pc = "loop"
    /\ an_arrived = 0 /\ an_acked = {} /\ an_processed = {}

OutsidePipeline ==
    UNCHANGED <<config_, sc_pc, band_seen, now, recorded, last_gen, notifierVars, busVars,
                gatewayVars, an_running_, sub_running_, worker_pc, stop_pc, market_pc,
                an_acked, an_processed, backoffVars, rg_now, api_last, lifeVars, raceVars, ingestorVars>>

\* The market-update callback of run(): queue the update; a SOL update also
\* updates the regime detector.
OnMarketUpdateOf(updates, maxq) ==
    /\ sub_running_
    /\ an_arrived < MaxPipelineUpdates
    /\ Len(update_queue_) < maxq
    /\ \E u \in updates :
          /\ update_queue_' = Append(update_queue_, u)
          /\ IF u.mint_base = sol_mint
             THEN LET r == update_regime(data_points_, u.price_usd, u.change_pct, rg_now,
                                         RegimeSettings) IN
                  /\ data_points_' = r.data_points
                  /\ risk_on_' = r.risk_on
             ELSE UNCHANGED <<data_points_, risk_on_>>
    /\ an_arrived' = an_arrived + 1
    /\ UNCHANGED <<signals, risk_on, alert_history_, market_updates_cache_, signals_cache_,
                   cleanup_counter, pm_last>>

OnMarketUpdate == OnMarketUpdateOf(MarketUpdates, MaxQueued) /\ OutsidePipeline

\* service_thread_func: take the front of the queue and process it.
ProcessMarketUpdateStep ==
    /\ an_running_
    /\ update_queue_ # << >>
    /\ \E env \in {"ok", "publish_fails", "store_throws"} :
          LET u == Head(update_queue_)
              st == [market |-> market_updates_cache_, sigcache |-> signals_cache_,
                     counter |-> cleanup_counter, signals |-> signals,
                     history |-> alert_history_]
              r == process_market_update(u, st, risk_on_, now, env, config_)
          IN
          /\ update_queue_' = Tail(update_queue_)
          /\ market_updates_cache_' = r.market
          /\ signals_cache_' = r.sigcache
          /\ cleanup_counter' = r.counter
          /\ signals' = r.signals
          /\ risk_on' = IF r.scored THEN risk_on_ ELSE risk_on
          /\ alert_history_' = r.history
          /\ pm_last' = [n |-> pm_last.n + 1, update |-> u, scored |-> r.scored,
                         published |-> r.published]
    /\ UNCHANGED <<an_arrived, data_points_, risk_on_>>

ProcessMarketUpdate == ProcessMarketUpdateStep /\ OutsidePipeline

NextPipeline == OnMarketUpdate \/ ProcessMarketUpdate

SpecPipeline == InitPipeline /\ [][NextPipeline]_vars

\* ---- the callback and the worker with room for a second queued update ----

MaxRaceQueued == 2

\* One token update that passes every check, and the SOL updates.
RaceUpdates ==
    {u \in TokenUpdates : /\ u.market_ok /\ u.edge_ok /\ u.age_hours = 100
                          /\ u.sig.s7_rug_risk = 90 /\ u.sig.data_quality = 100}
    \cup SolUpdates

OutsideRegimeRace ==
    UNCHANGED <<config_, sc_pc, band_seen, now, recorded, last_gen, notifierVars, busVars,
                gatewayVars, an_running_, sub_running_, worker_pc, stop_pc, market_pc,
                an_acked, an_processed, backoffVars, rg_now, api_last, lifeVars, nstop_pc,
                login_pc, ingestorVars>>

\* The callback; the log keeps is_risk_on() as it is once the callback has
\* handled this update, that is after exactly the SOL updates up to it.
ArriveLogged ==
    /\ OnMarketUpdateOf(RaceUpdates, MaxRaceQueued)
    /\ regime_log' = [regime_log EXCEPT !.queued = Append(@, risk_on_')]
    /\ OutsideRegimeRace

\* The worker; the log keeps the is_risk_on() that process_market_update read.
ScoreLogged ==
    /\ ProcessMarketUpdateStep
    /\ regime_log' = [queued |-> Tail(regime_log.queued), n |-> regime_log.n + 1,
                      at_arrival |-> Head(regime_log.queued), used |-> risk_on_]
    /\ OutsideRegimeRace

NextRegimeRace == ArriveLogged \/ ScoreLogged

SpecRegimeRace == InitPipeline /\ [][NextRegimeRace]_vars

\* Forwarding alone: the owner sends commands that handle_command hands to
\* handle_local_command or forward_command, among them add_wallet with a
\* well-formed and with a malformed address; nothing consumes the requests.
ForwardTexts ==
    {Text(<<"balance">>), Text(<<"help">>), Text(<<"add_wallet", "addr">>),
     Text(<<"add_wallet", "not-an-address">>)}

ForwardUpdate ==
    /\ gw_log.n < MaxUpdates
    /\ \E text \in ForwardTexts, env \in GwEnvs : GwHandle(owner_telegram_id, text, env)

ForwardMinute == GwAdvance(GwTicksPerMin, MaxAuthTime)

NextForward == ForwardUpdate \/ ForwardMinute

SpecForward == InitGateway /\ [][NextForward]_vars

\* The service thread under a fair scheduler: whenever the thread can take a
\* step of service_loop it eventually does; the arrivals of alerts and of
\* commands are the environment's and nothing obliges them to happen.
NextCommandLive == DeliverAlert \/ DeliverCommand \/ ServiceAlert \/ ServiceCommand

SpecCommandLive ==
    InitNotifier /\ [][NextCommandLive]_vars /\ WF_vars(ServiceAlert) /\ WF_vars(ServiceCommand)

\* ---- NotifierService::stop against the service thread, step by step ----

OutsideStop ==
    UNCHANGED <<config_, scoringVars, throttleVars, busVars, gatewayVars, analyticsVars, lifeVars,
                login_pc, regime_log, ingestorVars>>

\* service_loop, alert_queue_cv_.wait(lock, pred): with the mutex held the
\* predicate '!alert_queue_.empty() || !running_' is evaluated and is false.
WaitCheck ==
    /\ svc_pc = "alerts"
    /\ alert_queue_ = << >> /\ running_
    /\ svc_pc' = "checked"
    /\ UNCHANGED <<clock, kv, alert_queue_, command_queue_, running_, relock, outbound, audit_log,
                   handled_cmds, decided, last, nstop_pc>>
    /\ OutsideStop

\* The wait releases the mutex and blocks the thread until a notification.
WaitBlock ==
    /\ svc_pc = "checked"
    /\ svc_pc' = "waiting"
    /\ UNCHANGED <<clock, kv, alert_queue_, command_queue_, running_, relock, outbound, audit_log,
                   handled_cmds, decided, last, nstop_pc>>
    /\ OutsideStop

\* The alert callback's notify_one (made with alert_queue_mutex_ held, after
\* the push) wakes the waiting thread, which evaluates the predicate again.
WakeOnAlert ==
    /\ svc_pc = "waiting"
    /\ alert_queue_ # << >>
    /\ svc_pc' = "alerts"
    /\ UNCHANGED <<clock, kv, alert_queue_, command_queue_, running_, relock, outbound, audit_log,
                   handled_cmds, decided, last, nstop_pc>>
    /\ OutsideStop

\* stop(): 'if (!running_) return; running_ = false;' with no mutex held.
StopFlag ==
    /\ nstop_pc = "idle"
    /\ running_
    /\ running_' = FALSE
    /\ nstop_pc' = "notify"
    /\ UNCHANGED <<clock, kv, alert_queue_, command_queue_, svc_pc, relock, outbound, audit_log,
                   handled_cmds, decided, last>>
    /\ OutsideStop

\* stop(): alert_queue_cv_.notify_all() wakes the thread if it is blocked in
\* the wait at this moment; command_queue_cv_ has no waiter.
StopNotify ==
    /\ nstop_pc = "notify"
    /\ svc_pc' = IF svc_pc = "waiting" THEN "alerts" ELSE svc_pc
    /\ nstop_pc' = "bus_stop"
    /\ UNCHANGED <<clock, kv, alert_queue_, command_queue_, running_, relock, outbound, audit_log,
                   handled_cmds, decided, last>>
    /\ OutsideStop

\* stop(): redis_bus_->stop() ends the consumers.
StopBus ==
    /\ nstop_pc = "bus_stop"
    /\ nstop_pc' = "join"
    /\ UNCHANGED <<clock, kv, alert_queue_, command_queue_, running_, svc_pc, relock, outbound,
                   audit_log, handled_cmds, decided, last>>
    /\ OutsideStop

\* stop(): service_thread_.join() returns once service_loop has returned.
StopJoin ==
    /\ nstop_pc = "join"
    /\ svc_pc = "done"
    /\ nstop_pc' = "returned"
    /\ UNCHANGED <<clock, kv, alert_queue_, command_queue_, running_, svc_pc, relock, outbound,
                   audit_log, handled_cmds, decided, last>>
    /\ OutsideStop

ServiceStep == ServiceAlert \/ ServiceCommand \/ ServiceExit \/ WaitCheck \/ WaitBlock \/ WakeOnAlert

StopStep == StopNotify \/ StopBus \/ StopJoin

NextStop == DeliverAlert \/ ServiceStep \/ StopFlag \/ StopStep

\* Both threads are scheduled fairly; when stop() is called is up to the caller.
SpecStop == InitNotifier /\ [][NextStop]_vars /\ WF_vars(ServiceStep) /\ WF_vars(StopStep)

\* ---- two /start requests with the same PIN (webhook mode: the HTTP server
\* ---- runs handle_telegram_update on several threads) ----

RaceUsers == {2, 3}

OutsideLogin ==
    UNCHANGED <<config_, scoringVars, throttleVars, notifierVars, busVars, analyticsVars, lifeVars,
                nstop_pc, regime_log, ingestorVars>>

\* The owner creates the one PIN of the scenario (/guest 1).
IssuePin ==
    /\ gw_log.n = 0
    /\ \E env \in GwEnvs : GwHandle(owner_telegram_id, Text(<<"guest", "1">>), env)

\* handle_guest_login up to get_guest_pin_user: the update passes the rate
\* limiter and the parser, the GET finds the PIN; the call has not yet reached
\* set_guest_session and delete_guest_pin.
LoginLookup ==
    /\ 0 < gw_log.n /\ gw_log.n < MaxUpdates
    /\ \E user_id \in RaceUsers \ DOMAIN login_pc, pin \in Pins :
          LET rl == check_user_rate_limit(user_limits_, user_id, gw_now) IN
          /\ rl.pass
          /\ pin \in DOMAIN guest_pins
          /\ user_limits_' = rl.limits
          /\ login_pc' = Put(login_pc, user_id, [pin |-> pin, exp |-> guest_pins[pin].exp])
          /\ passed' = Put(passed, user_id,
                           Append(LastMinute(IF user_id \in DOMAIN passed THEN passed[user_id]
                                             ELSE << >>, gw_now), gw_now))
    /\ UNCHANGED <<gw_now, pending_commands_, guest_sessions_, guest_pins, req_stream, rep_stream,
                   cursors, cmd_channel, reply_channel, next_corr, gw_log, req_info, reply_log>>
    /\ OutsideLogin

\* handle_guest_login when the GET finds no PIN: "Invalid or expired PIN".
LoginRefused ==
    /\ 0 < gw_log.n /\ gw_log.n < MaxUpdates
    /\ \E user_id \in RaceUsers \ DOMAIN login_pc, pin \in Pins :
          /\ pin \notin DOMAIN guest_pins
          /\ GwHandle(user_id, Text(<<"start", pin>>), [pin |-> pin] @@ EnvOk)

\* handle_guest_login after the GET: set_guest_session, delete_guest_pin (a
\* failing DEL is only logged), the grant message and the audit event.
LoginGrant ==
    /\ \E user_id \in DOMAIN login_pc, del_throws \in BOOLEAN :
          LET pin == login_pc[user_id].pin IN
          /\ guest_sessions_' =
                Put(guest_sessions_, user_id,
                    [expires_at |-> gw_now + Minutes(guest_default_minutes),
                     pin_exp |-> login_pc[user_id].exp])
          /\ guest_pins' = IF del_throws THEN guest_pins
                           ELSE Restrict(guest_pins, DOMAIN guest_pins \ {pin})
          /\ login_pc' = Restrict(login_pc, DOMAIN login_pc \ {user_id})
          /\ gw_log' = [n |-> gw_log.n + 1, redeemed |-> gw_log.redeemed \cup {pin},
                        user |-> user_id, command |-> "start", login |-> TRUE,
                        reused |-> pin \in gw_log.redeemed,
                        role |-> get_user_role(user_id, guest_sessions_, gw_now),
                        outcome |-> "login_ok", sent |-> <<"guest_granted">>,
                        audit |-> "guest_login", audit_published |-> TRUE, at |-> gw_now]
    /\ UNCHANGED <<gw_now, pending_commands_, user_limits_, req_stream, rep_stream, cursors,
                   cmd_channel, reply_channel, next_corr, req_info, reply_log, passed>>
    /\ OutsideLogin

RaceMinute == GwAdvance(GwTicksPerMin, MaxAuthTime)

NextPinRace == IssuePin \/ LoginLookup \/ LoginRefused \/ LoginGrant \/ RaceMinute

SpecPinRace == InitGateway /\ [][NextPinRace]_vars

\* ---- ingestor: PoolCache (pool_cache.cpp) ----

MaxPoolTime == 4
PoolIds == {"p1", "p2", "p3"}
\* The ingestor reads 10000 entries and 30 minutes; the model keeps two pools
\* for two minutes.
PoolSettings == [pool_cache_max_size |-> 2, pool_cache_ttl_minutes |-> 2]

\* PoolCache::cleanup_expired on pools_: the entries with expiry <= now go.
cleanup_expired(pools, t) ==
    Restrict(pools, {p \in DOMAIN pools : ~(pools[p].expiry <= t)})

\* PoolCache::update_pool.  It holds mutex_ when it calls cleanup_expired,
\* which locks mutex_ again: relock is what the build makes of locking a
\* std::mutex the thread owns.  The result is the set of possible outcomes:
\* entries with equal expiry are removed in an order the sort does not fix.
update_pool(pools, pool_id, t, cfg, relock_outcome) ==
    LET p1 == Put(pools, pool_id, [expiry |-> t + cfg.pool_cache_ttl_minutes])
        p2 == cleanup_expired(p1, t)
        to_remove == Cardinality(DOMAIN p2) - cfg.pool_cache_max_size
    IN IF ~(Cardinality(DOMAIN p1) > cfg.pool_cache_max_size)
       THEN {[pools |-> p1, outcome |-> "returned"]}
       ELSE IF relock_outcome = "deadlock" THEN {[pools |-> p1, outcome |-> "blocked"]}
       ELSE IF relock_outcome = "throws" THEN {[pools |-> p1, outcome |-> "threw"]}
       ELSE IF ~(Cardinality(DOMAIN p2) > cfg.pool_cache_max_size)
       THEN {[pools |-> p2, outcome |-> "returned"]}
       ELSE {[pools |-> Restrict(p2, DOMAIN p2 \ R), outcome |-> "returned"] :
                R \in {S \in SUBSET DOMAIN p2 :
                          /\ Cardinality(S) = to_remove
                          /\ \A r \in S, k \in DOMAIN p2 \ S : p2[r].expiry <= p2[k].expiry}}

OutsidePool ==
    UNCHANGED <<config_, scoringVars, throttleVars, notifierVars, busVars, gatewayVars,
                analyticsVars, lifeVars, raceVars, aggVars>>

\* One update_pool call; after a call that blocked, mutex_ stays locked and
\* no other call gets past its lock_guard.
UpdatePool ==
    /\ pool_last.called => pool_last.outcome # "blocked"
    /\ \E pool_id \in PoolIds, relock_outcome \in RelockOutcomes :
          \E r \in update_pool(pools_, pool_id, pc_now, PoolSettings, relock_outcome) :
             /\ pools_' = r.pools
             /\ pool_last' = [called |-> TRUE, pool_id |-> pool_id, outcome |-> r.outcome,
                             before |-> pools_, at |-> pc_now]
    /\ UNCHANGED pc_now
    /\ OutsidePool

PoolTick ==
    /\ pc_now < MaxPoolTime
    /\ pc_now' = pc_now + 1
    /\ UNCHANGED <<pools_, pool_last>>
    /\ OutsidePool

InitIngestor ==
    /\ config_ = DefaultConfig
    /\ ScoringIdle /\ ThrottleIdle /\ NotifierIdle /\ BusIdle /\ GatewayIdle
    /\ AnalyticsIdle
    /\ RaceIdle /\ IngestorIdle

NextPool == UpdatePool \/ PoolTick

SpecPool == InitIngestor /\ [][NextPool]_vars

\* ---- ingestor: OHLCVAggregator (ohlcv_aggregator.cpp); time in minutes ----

MaxAggTime == 75
MaxPoints == 3
AggTick == [minutes |-> 15]
BarIntervals == {5, 15}
AggPools == {"p1"}
\* cleanup_old_bars is called with an age in hours (24 when none is given).
MaxAges == [hours |-> {1}]

\* util::round_to_interval: the minute of the hour rounded down to a multiple
\* of the interval (5 and 15 divide 60), seconds cleared.
get_bar_start(timestamp, interval_minutes) ==
    (timestamp \div interval_minutes) * interval_minutes

\* BarBuilder::is_complete: duration_cast<minutes>(now - bar_start) >= interval.
is_complete(builder, t) == t - builder.bar_start >= builder.interval_minutes

make_bar_key(pool_id, interval_minutes, bar_start) == <<pool_id, interval_minutes, bar_start>>

\* BarBuilder::to_bar, without the prices: the bar's key and its number of points.
to_bar(builder) ==
    [pool_id |-> builder.pool_id, interval_minutes |-> builder.interval_minutes,
     timestamp |-> builder.bar_start, points |-> builder.points]

RECURSIVE SeqOfSet(_)
SeqOfSet(S) == IF S = {} THEN << >>
               ELSE LET x == CHOOSE y \in S : TRUE IN <<x>> \o SeqOfSet(S \ {x})

\* One interval's part of add_price_point: the point joins the builder of its
\* bar, which is created when active_bars_ has none under the key.
add_to_bar(active, pool_id, interval_minutes, timestamp) ==
    LET bar_start == get_bar_start(timestamp, interval_minutes)
        key == make_bar_key(pool_id, interval_minutes, bar_start)
    IN IF key \in DOMAIN active
       THEN [active EXCEPT ![key].points = @ + 1]
       ELSE Put(active, key, [pool_id |-> pool_id, interval_minutes |-> interval_minutes,
                              bar_start |-> bar_start, points |-> 1])

\* OHLCVAggregator::add_price_point: [active, completed, moved] where moved are
\* the bars this call moved to completed_bars_.
add_price_point(active, completed, pool_id, price, volume, timestamp, t) ==
    IF price <= 0 \/ volume < 0
    THEN [active |-> active, completed |-> completed, moved |-> << >>]
    ELSE LET a1 == add_to_bar(add_to_bar(active, pool_id, 5, timestamp), pool_id, 15, timestamp)
             done == {k \in DOMAIN a1 : is_complete(a1[k], t)}
             moved == [i \in 1..Cardinality(done) |-> to_bar(a1[SeqOfSet(done)[i]])]
         IN [active |-> Restrict(a1, DOMAIN a1 \ done), completed |-> completed \o moved,
             moved |-> moved]

\* OHLCVAggregator::get_completed_bars: [bars returned, completed_bars_ left].
get_completed_bars(completed, interval_minutes) ==
    [bars |-> SelectSeq(completed, LAMBDA b : b.interval_minutes = interval_minutes),
     completed |-> SelectSeq(completed, LAMBDA b : b.interval_minutes # interval_minutes)]

\* OHLCVAggregator::flush_all_bars: the completed bars, then every active bar.
flush_all_bars(active, completed) ==
    [bars |-> completed \o [i \in 1..Cardinality(DOMAIN active) |->
                               to_bar(active[SeqOfSet(DOMAIN active)[i]])],
     active |-> << >>, completed |-> << >>]

\* OHLCVAggregator::cleanup_old_bars(max_age): bars that started before now - max_age go.
cleanup_old_bars(active, completed, max_age_hours, t) ==
    LET cutoff == t - max_age_hours * 60 IN
    [active |-> Restrict(active, {k \in DOMAIN active : ~(active[k].bar_start < cutoff)}),
     completed |-> SelectSeq(completed, LAMBDA b : ~(b.timestamp < cutoff))]

BarKey(b) == make_bar_key(b.pool_id, b.interval_minutes, b.timestamp)

OutsideAgg ==
    UNCHANGED <<config_, scoringVars, throttleVars, notifierVars, busVars, gatewayVars,
                analyticsVars, lifeVars, raceVars, poolVars>>

\* A price point arrives; its timestamp is the present or up to 15 minutes old.
AddPricePoint ==
    /\ agg_log.added < MaxPoints
    /\ \E pool_id \in AggPools, price \in {0, 1}, back \in {0, 5, 15} :
          LET r == add_price_point(active_bars_, completed_bars_, pool_id, price, 1,
                                   agg_now - back, agg_now) IN
          /\ back <= agg_now
          /\ active_bars_' = r.active
          /\ completed_bars_' = r.completed
          /\ agg_log' = [agg_log EXCEPT
                            !.op = "add", !.added = @ + 1,
                            !.completed = @ \o [i \in 1..Len(r.moved) |-> BarKey(r.moved[i])]]
    /\ UNCHANGED agg_now
    /\ OutsideAgg

GetCompletedBars ==
    /\ completed_bars_ # << >>
    /\ \E interval_minutes \in BarIntervals :
          LET r == get_completed_bars(completed_bars_, interval_minutes) IN
          /\ completed_bars_' = r.completed
          /\ agg_log' = [agg_log EXCEPT
                            !.op = "get", !.returned = @ + Len(r.bars)]
    /\ UNCHANGED <<agg_now, active_bars_>>
    /\ OutsideAgg

FlushAllBars ==
    /\ active_bars_ # << >> \/ completed_bars_ # << >>
    /\ LET r == flush_all_bars(active_bars_, completed_bars_) IN
       /\ active_bars_' = r.active
       /\ completed_bars_' = r.completed
       /\ agg_log' = [agg_log EXCEPT
                         !.op = "flush", !.returned = @ + Len(completed_bars_),
                         !.partial = Len(r.bars) - Len(completed_bars_),
                         !.active_before = Cardinality(DOMAIN active_bars_)]
    /\ UNCHANGED agg_now
    /\ OutsideAgg

CleanupOldBars ==
    /\ \E max_age \in MaxAges.hours :
          LET r == cleanup_old_bars(active_bars_, completed_bars_, max_age, agg_now)
              gone == SelectSeq(completed_bars_, LAMBDA b : b.timestamp < agg_now - max_age * 60)
          IN
          /\ active_bars_' = r.active
          /\ completed_bars_' = r.completed
          /\ agg_log' = [agg_log EXCEPT !.op = "cleanup", !.discarded = @ + Len(gone)]
    /\ UNCHANGED agg_now
    /\ OutsideAgg

AggAdvance ==
    /\ agg_now + AggTick.minutes <= MaxAggTime
    /\ agg_now' = agg_now + AggTick.minutes
    /\ UNCHANGED <<active_bars_, completed_bars_, agg_log>>
    /\ OutsideAgg

NextAgg == AddPricePoint \/ GetCompletedBars \/ FlushAllBars \/ CleanupOldBars \/ AggAdvance

SpecAgg == InitIngestor /\ [][NextAgg]_vars

\* C5: for each inbound alert the gates are evaluated in the order mute, global
\* throttle, dedup, publish; the first gate that fires decides the outcome, the
\* later gates are not evaluated and change no key (a muted or throttled alert
\* sets no dedup key), and an alert is published only when all three gates
\* passed, with outcome SENT.
C5_GateOrder ==
    last.made =>
        LET n == Len(last.gates)
            muted == mute_key_ \in DOMAIN last.kv_before /\ ~last.env.mute_throws
            throttled == is_globally_throttled(last.alert.severity, last.kv_before,
                                               last.env.throttle_throws, NotifierSettings)
        IN
        /\ n >= 1
        /\ \A i \in 1..n : last.gates[i] = Gates[i]
        /\ muted <=> last.outcome = "MUTED"
        /\ (~muted /\ throttled) <=> last.outcome = "THROTTLED"
        /\ last.outcome = "MUTED" => (n = 1 /\ last.kv_after = last.kv_before)
        /\ last.outcome = "THROTTLED" => (n = 2 /\ last.kv_after = last.kv_before)
        /\ last.outcome = "DUPLICATE" =>
              /\ n = 3
              /\ \A k \in DOMAIN last.kv_before : k \in DOMAIN last.kv_after /\ last.kv_after[k] = last.kv_before[k]
        /\ last.outcome \in {"MUTED", "THROTTLED"} => (\/ dedupe_key(last.alert) \notin DOMAIN last.kv_after
               \/ dedupe_key(last.alert) \in DOMAIN last.kv_before)
        /\ last.published <=> last.outcome = "SENT"
        /\ last.outcome \in {"SENT", "PUBLISH_FAILED"} => n = 4
        /\ last.outcome \in {"MUTED", "THROTTLED", "DUPLICATE", "SENT", "PUBLISH_FAILED"}

\* A muted alert that the throttle gate and the dedup gate would have stopped too.
C5_Witness ==
    /\ last.made
    /\ last.outcome = "MUTED"
    /\ last.alert.severity = "actionable"
    /\ global_throttle_key_ \in DOMAIN last.kv_before
    /\ dedupe_key(last.alert) \in DOMAIN last.kv_before
    /\ Len(decided) = 2
    /\ decided[1].outcome = "SENT"

SameFingerprint(a, b) == a.mint = b.mint /\ a.lines = b.lines

\* The alerts handled within one dedup period of each other with one
\* fingerprint, neither muted nor throttled, no such alert between them or
\* within the period before the first.
DedupPairs ==
    LET Passed(i) == decided[i].outcome \notin {"MUTED", "THROTTLED"}
        Near(i, j) == /\ i < j
                      /\ SameFingerprint(decided[i].alert, decided[j].alert)
                      /\ decided[j].at - decided[i].at < NotifierSettings.dedupe_period_sec
                      /\ Passed(i) /\ Passed(j)
    IN {p \in (1..Len(decided)) \X (1..Len(decided)) :
           /\ Near(p[1], p[2])
           /\ \A k \in 1..Len(decided) : ~Near(k, p[1])
           /\ \A k \in 1..Len(decided) : ~(Near(p[1], k) /\ k < p[2])}

\* C6: of two inbound alerts with the same mint and the same reason lines that
\* are processed within the dedup TTL, neither muted nor throttled, exactly
\* one is published: one has outcome SENT and the other DUPLICATE.
C6_ExactlyOnePublished ==
    \A p \in DedupPairs :
        {decided[p[1]].outcome, decided[p[2]].outcome} = {"SENT", "DUPLICATE"}

\* C7: an actionable alert that arrives after a /mute was delivered is not
\* published and gets outcome MUTED; once the mute period is over or /unmute
\* was handled, alerts are not muted any more.
C7_MuteThenAlert ==
    last.made =>
        /\ (last.alert.severity = "actionable" /\ last.mute_before) =>
               (last.outcome = "MUTED" /\ ~last.published)
        /\ ~last.mute_active => last.outcome # "MUTED"

\* C8: an alert during whose gate checks a key-value store call threw is not
\* published, whatever the other checks saw.
C8_FailClosed ==
    last.made /\ last.store_failed => ~last.published

\* C9: a stream entry whose handler threw stays unacknowledged and is
\* eventually handed to the handler again.
C9_Redelivered ==
    \A id \in 1..MaxMessages :
        (id <= Len(entry_log) /\ entry_log[id].handler = "threw" /\ id \in DOMAIN pel)
            ~> (id <= Len(entry_log) /\ entry_log[id].reads >= 2)

\* C10: an entry whose payload cannot be parsed (no JSON, a required field
\* missing, no "data" field) is acknowledged once the consumer has read it: it
\* is not in the group's pending list.
C10_PoisonAcked ==
    \A id \in 1..Len(stream_) :
        (entry_log[id].reads >= 1 /\ stream_[id] # "ok") => id \notin DOMAIN pel

\* C1: generate_alerts publishes only when the band is not "watch" and
\* should_throttle returned false; record_alert is called exactly when the
\* publish succeeded; a failed publish leaves the throttle history unchanged.
C1_AlertEmission ==
    last_gen.called =>
        /\ last_gen.attempted <=> (~last_gen.watch /\ ~last_gen.throttled)
        /\ last_gen.published <=> (last_gen.attempted /\ last_gen.publish_ok)
        /\ last_gen.record_called <=> last_gen.published
        /\ ~last_gen.published => ~last_gen.history_changed
        /\ last_gen.published => last_gen.history_changed

C1_Witness ==
    /\ last_gen.called /\ last_gen.attempted /\ ~last_gen.publish_ok
    /\ ~last_gen.history_changed
    /\ Len(alert_history_) >= 1

\* C4: after record_alert(m, b), should_throttle(m, b) is true for as long as
\* fewer than the band's cooldown minutes have elapsed, whatever was recorded
\* or pruned in between.
C4_CooldownHolds ==
    \A r \in recorded :
        (now - r.timestamp) < cooldown_minutes(r.band, config_) * TicksPerMin
            => should_throttle(r.mint, r.band, alert_history_, now, config_)

C4_Witness ==
    \E r \in recorded :
        /\ now > r.timestamp
        /\ (now - r.timestamp) < cooldown_minutes(r.band, config_) * TicksPerMin
        /\ \E q \in recorded : q.timestamp > r.timestamp /\ q.mint # r.mint
        /\ \E i \in Indices(alert_history_) :
              alert_history_[i].timestamp >= r.timestamp /\ alert_history_[i].mint # r.mint
        /\ alert_history_[1].timestamp >= TicksPerMin

\* C2: determine_band returns "watch" whenever entry_confirmed or net_edge_ok is
\* false, and every call with the same (confidence, entry_confirmed, net_edge_ok)
\* under one configuration has returned the same band.
C2_BandGate ==
    /\ sc_pc = "band" =>
          ((~signals.entry_confirmed \/ ~signals.net_edge_ok) => signals.band = "watch")
    /\ \A a \in band_seen :
          /\ (~a.entry \/ ~a.edge) => a.band = "watch"
          /\ \A b \in band_seen :
                (a.confidence = b.confidence /\ a.entry = b.entry /\ a.edge = b.edge)
                    => a.band = b.band

C2_Witness ==
    /\ sc_pc = "band"
    /\ signals.entry_confirmed /\ ~signals.net_edge_ok
    /\ signals.confidence_score >= config_.high_conviction_min
    /\ signals.band = "watch"
    /\ \E a \in band_seen : a.band = "high_conviction"

\* C3: after calculate_confidence followed by apply_risk_adjustment the
\* confidence lies in [0,100].
C3_ConfidenceInRange ==
    sc_pc \in {"adjusted", "band"} =>
        (signals.confidence_score >= 0 /\ signals.confidence_score <= 100)

\* C11: the reply the gateway relays to the chat for a forwarded portfolio
\* command (balance, holdings, add_wallet, remove_wallet) with correlation id X
\* is the reply of the portfolio service, which has received request X.
C11_HandlerReplyRelayed ==
    \A r \in reply_log.relayed :
        req_info[r.corr_id].cmd \in PortfolioCmds =>
            /\ "portfolio" \in req_info[r.corr_id].received_by
            /\ r.from = "portfolio"

\* C12: every request that was published on the request stream, has not been
\* replied to and was not more than five minutes old at a sweep has its entry
\* in pending_commands_ under its corr_id, holding the chat that issued it.
C12_PendingKept ==
    \A c \in DOMAIN req_info :
        (req_info[c].published /\ c \notin reply_log.replied /\ c \notin reply_log.swept) =>
            /\ c \in DOMAIN pending_commands_
            /\ pending_commands_[c].chat_id = req_info[c].chat_id

\* A request exactly five minutes old has survived a sweep's moment while
\* another request has been replied to.
C12_Witness ==
    /\ reply_log.replied # {}
    /\ \E c \in DOMAIN req_info :
          /\ req_info[c].published /\ c \notin reply_log.replied /\ c \notin reply_log.swept
          /\ c \in DOMAIN pending_commands_
          /\ gw_now - pending_commands_[c].timestamp = Minutes(PendingMaxAgeMin)

C14_PinSingleUse ==
    (gw_log.n > 0 /\ gw_log.login /\ gw_log.reused /\ gw_log.outcome # "rate_limited") =>
        gw_log.outcome = "login_invalid"

\* C15: a guest session installed by redeeming a PIN expires no later than
\* the PIN would have.
C15_SessionWithinPinTtl ==
    \A u \in DOMAIN guest_sessions_ :
        guest_sessions_[u].expires_at <= guest_sessions_[u].pin_exp

\* C16: in every interval of less than a minute ending now, at most
\* rate_limit_msgs_per_min of a user's messages have passed the rate limiter.
C16_RollingLimit ==
    \A u \in DOMAIN passed : Len(passed[u]) <= rate_limit_msgs_per_min

\* C17: once the notifier has decided an inbound alert, handle_inbound_alert
\* has returned (the service thread is neither blocked in log_event nor
\* terminated by it) and the audit log holds one event per decided alert, the
\* last one carrying the decided outcome.
C17_AuditReturns ==
    last.made =>
        /\ svc_pc \notin {"blocked", "terminated"}
        /\ Len(audit_log) = Len(decided)
        /\ audit_log[Len(audit_log)] = last.outcome

\* C18: when stop() has returned, every market update that was acknowledged
\* on the stream has been processed by the worker.
C18_DrainedAtStop ==
    stop_pc = "returned" => an_acked \subseteq an_processed

\* C19: the number of updates in update_queue_ stays below a fixed bound;
\* taken here for the largest bound the arrivals of the model can reach,
\* MaxArrivals - 1.
C19_QueueBounded ==
    Len(update_queue_) < MaxArrivals

\* C20: when ensure_connection has returned true (a ping succeeded), the
\* backoff is back at 1 s and the retry counter at 0.
C20_BackoffReset ==
    (bo_last.called /\ bo_last.result) =>
        (backoff_ms_ = BackoffBaseMs /\ retry_count_ = 0)

\* C21: at every point in time, also while time advances and no alert is
\* recorded, alert_history_ holds no record older than the largest per-band
\* cooldown.
C21_HistoryFresh ==
    \A i \in 1..Len(alert_history_) :
        elapsed_minutes(now, alert_history_[i].timestamp) <= max_cooldown(config_)

\* C27: with sufficient data quality and S7 below 0.5, the confidence carried
\* into band determination is at most max_rug_cap, in both regimes.
C27_RugCapHolds ==
    (/\ sc_pc \in {"adjusted", "band"}
     /\ signals.s7_rug_risk < 50
     /\ signals.data_quality >= config_.min_dq_for_actionable)
        => signals.confidence_score <= config_.max_rug_cap

\* C26: under every configuration of the cooldowns and of
\* rate_limit_window_min, the alerts published within any window of
\* rate_limit_window_min minutes number at most max_alerts_per_window.
C26_WindowLimit ==
    Cardinality(last_gen.in_window) <= config_.max_alerts_per_window

\* C25: within one global-throttle window at most global_throttle_limit
\* actionable alerts are given the outcome SENT: counted from any actionable
\* alert that was SENT, the actionable alerts SENT less than
\* global_throttle_period_sec later (itself included) number at most the limit.
C25_GlobalLimit ==
    \A i \in 1..Len(decided) :
        (decided[i].outcome = "SENT" /\ decided[i].alert.severity = "actionable") =>
            Cardinality({j \in i..Len(decided) :
                /\ decided[j].outcome = "SENT"
                /\ decided[j].alert.severity = "actionable"
                /\ decided[j].at - decided[i].at < NotifierSettings.global_throttle_period_sec})
              <= NotifierSettings.global_throttle_limit

\* C24: is_risk_on() is false before any regime update and after every
\* update_regime call that leaves fewer than 3 data points in the 24-hour
\* window, that is fewer than 3 points taken at most 24 hours before the call,
\* whatever prices and percentages were supplied.
C24_WindowRiskOff ==
    LET n == Len(data_points_)
        within == {i \in 1..n :
                     (data_points_[n].timestamp - data_points_[i].timestamp)
                         * (RegimeTick.hours * 60 + RegimeTick.minutes) <= 24 * 60}
    IN Cardinality(within) < 3 => ~risk_on_

\* C23: get_token_signals never returns a cached SignalResult older than
\* cache_ttl_minutes.
C23_CachedFresh ==
    (api_last.called /\ api_last.found /\ api_last.from_cache) =>
        api_last.age <= CacheSettings.cache_ttl_minutes * TicksPerMin

\* C22: while the gateway is running the housekeeping sweep executes every
\* minute: once run() has set running_, the process is alive, and from the
\* moment it serves updates its cleanup thread is inside cleanup_loop.
C22_SweepAlive ==
    gw_running_ =>
        /\ gw_main # "terminated"
        /\ gw_main = "serving" => cleanup_thread_.pc \in {"check", "sleeping"}

\* C28: a scored update of a token younger than young_token_hours with S7
\* below 0.5 has its entry confirmed only with a confidence of at least
\* min_c_young_risky; under the default thresholds it ends in band "watch" and
\* no alert is published for it.
C28_YoungRisky ==
    (/\ pm_last.n > 0
     /\ pm_last.scored
     /\ pm_last.update.age_hours < config_.young_token_hours
     /\ pm_last.update.sig.s7_rug_risk < 50)
        => /\ signals.entry_confirmed =>
                signals.confidence_score >= config_.min_c_young_risky
           /\ config_.min_c_young_risky = min_c_young_risky =>
                (signals.band = "watch" /\ ~pm_last.published)

\* Such an update that passes every other check at confidence 65, in the
\* risk-off regime, under the defaults.
C28_Witness ==
    /\ pm_last.n > 0
    /\ pm_last.scored
    /\ pm_last.update.age_hours < config_.young_token_hours
    /\ pm_last.update.sig.s7_rug_risk < 50
    /\ pm_last.update.market_ok /\ pm_last.update.edge_ok
    /\ config_.min_c_young_risky = min_c_young_risky
    /\ signals.confidence_score = 65
    /\ ~signals.entry_confirmed
    /\ signals.band = "watch"

\* C29: a market update whose mint_base is the SOL mint updates the regime
\* detector in the callback and is otherwise inert: handling it leaves the
\* market-update cache, the signal cache, the last SignalResult and the throttle
\* history as they were, and scores and publishes nothing.
C29_SolInert ==
    [][/\ (/\ an_arrived' = an_arrived + 1
           /\ update_queue_'[Len(update_queue_')].mint_base = sol_mint)
          => /\ data_points_' # << >>
             /\ LET p == data_points_'[Len(data_points_')]
                    u == update_queue_'[Len(update_queue_')]
                IN p.sol_price = u.price_usd /\ p.timestamp = rg_now
             /\ UNCHANGED <<market_updates_cache_, signals_cache_, cleanup_counter, signals,
                            alert_history_>>
       /\ (/\ pm_last'.n = pm_last.n + 1
           /\ Head(update_queue_).mint_base = sol_mint)
          => /\ UNCHANGED <<market_updates_cache_, signals_cache_, cleanup_counter, signals,
                            alert_history_, data_points_, risk_on_>>
             /\ ~pm_last'.scored /\ ~pm_last'.published
      ]_vars

\* A SOL update has gone through the callback and the worker.
C29_Witness ==
    /\ pm_last.n > 0
    /\ pm_last.update.mint_base = sol_mint
    /\ pm_last.update.price_usd = 120
    /\ Len(data_points_) = 1 /\ data_points_[1].sol_price = 120
    /\ market_updates_cache_ = << >>
    /\ alert_history_ = << >>

\* C30: the worker processes the updates in exactly the order they were
\* enqueued, one at a time: the updates process_market_update has been called
\* with are the first ones enqueued, and those still queued follow them in
\* arrival order, so an earlier update is done before a later one is dequeued.
C30_InOrder ==
    /\ \A i \in an_processed : \A j \in 1..i : j \in an_processed
    /\ \A k \in 1..Len(update_queue_) : update_queue_[k] = Cardinality(an_processed) + k

\* The first update is done while the second and the third wait in the queue.
C30_Witness ==
    /\ an_processed = {1}
    /\ update_queue_ = <<2, 3>>

\* C39: pending_commands_ holds a corr_id only if the request with that corr_id
\* was published on the request stream.
C39_PendingOnlyPublished ==
    \A c \in DOMAIN pending_commands_ : req_info[c].published

\* C35: for each correlation id at most one reply is relayed to the chat, and
\* it is the reply of the service that owns the command (analytics for signals,
\* portfolio for the portfolio commands), never another service's answer to
\* the same request.
C35_OwnerReplyOnly ==
    \A r \in reply_log.relayed :
        /\ r.from = (IF req_info[r.corr_id].cmd = "signals" THEN "analytics" ELSE "portfolio")
        /\ \A q \in reply_log.relayed : q.corr_id = r.corr_id => q = r


\* C38: a command that passed rate limiting, parsing and the ACL check ends
\* with a direct chat reply or with its request published on the request
\* stream and a pending entry, and the cmd_used audit event is produced only
\* for a command that was forwarded.
C38_ReplyOrRequest ==
    (gw_log.n > 0 /\ gw_log.outcome \in {"local", "forwarded", "not_forwarded"}) =>
        /\ \/ gw_log.sent # << >>
           \/ /\ gw_log.outcome = "forwarded"
              /\ next_corr \in DOMAIN pending_commands_
              /\ req_info[next_corr].published
        /\ gw_log.audit = "cmd_used" => gw_log.outcome = "forwarded"


\* C33: a command request waiting in the notifier's command queue of a running
\* service (one whose audit logger does not stop the thread) is eventually
\* taken from the queue and handled, whether or not an alert arrives after it.
C33_CommandHandled ==
    (relock = "granted" /\ command_queue_ # << >>) ~> (command_queue_ = << >>)


\* C34: a call of NotifierService::stop() that has cleared running_ eventually
\* returns from the join, under every interleaving with the service thread
\* (of a service whose audit logger does not stop the thread).
C34_StopReturns ==
    (relock = "granted" /\ nstop_pc = "notify") ~> (nstop_pc = "returned")


\* C36: one guest PIN gives at most one user a guest session, whatever the
\* interleaving of the /start requests that carry it and whether or not the
\* delete of the PIN succeeds.
C36_OneSessionPerPin ==
    \A u \in DOMAIN guest_sessions_, v \in DOMAIN guest_sessions_ :
        guest_sessions_[u].pin_exp = guest_sessions_[v].pin_exp => u = v


\* C37: the regime with which a market update is scored is the regime after
\* exactly the SOL updates that precede it in the stream, not one changed by
\* a SOL update that arrived after it.
C37_RegimeAtArrival ==
    (regime_log.n > 0 /\ pm_last.scored) => regime_log.used = regime_log.at_arrival


\* C31: every update_pool call returns, and after it the cache holds at most
\* pool_cache_max_size entries.
C31_ReturnsBounded ==
    pool_last.called =>
        /\ pool_last.outcome = "returned"
        /\ Cardinality(DOMAIN pools_) <= PoolSettings.pool_cache_max_size


\* C32: every bar moved to completed_bars_ is returned by exactly one later
\* get_completed_bars or flush_all_bars call (none returned twice, none lost),
\* and flush_all_bars also returns every active bar and leaves no bar behind.
C32_CompletedOnce ==
    /\ Len(agg_log.completed) = agg_log.returned + Len(completed_bars_)
    /\ agg_log.op = "flush" =>
          /\ agg_log.partial = agg_log.active_before
          /\ active_bars_ = << >> /\ completed_bars_ = << >>

\* C40: over the aggregator's lifetime no two completed bars carry the same
\* key (pool_id, interval, bar_start).
C40_OneBarPerKey ==
    \A i \in 1..Len(agg_log.completed), j \in 1..Len(agg_log.completed) :
        agg_log.completed[i] = agg_log.completed[j] => i = j

====
